---- MODULE Spec2Model ----
(***************************************************************************)
(* Part-number generators of KiCAD_Components_Generator:                   *)
(*   erj_6en_mpn_generator.py  (Panasonic ERJ-6EN resistors, E96 / E24)    *)
(*   gcm_mpn_generator.py      (Murata GCM capacitors, E12)                *)
(*                                                                         *)
(* Python floats are IEEE-754 binary64.  The generators multiply and       *)
(* compare floats without any tolerance, so the model carries floats as    *)
(* exact pairs (53-bit mantissa, binary exponent) and rounds every         *)
(* operation to nearest-even exactly as the hardware does.  Mantissas do   *)
(* not fit a machine integer of the checker, hence they are kept as        *)
(* little-endian sequences of LimbBits-bit limbs.                          *)
(***************************************************************************)
EXTENDS Integers, Sequences, FiniteSets, TLC

VARIABLES pc, arg, result, gen, yielded, parts, history, files, stdout

vars == <<pc, arg, result, gen, yielded, parts, history, files, stdout>>

\* the file system and the console, which the encoders, the generators and
\* generate_part_numbers do not touch
io == <<files, stdout>>

(***************************************************************************)
(* Natural numbers of arbitrary size (mantissas, products, quotients).     *)
(***************************************************************************)
LimbBits == 14
LimbBase == 16384
MantBits == 53

RECURSIVE Pow2(_)
Pow2(n) == IF n = 0 THEN 1 ELSE 2 * Pow2(n - 1)

RECURSIVE Pow10(_)
Pow10(n) == IF n = 0 THEN 1 ELSE 10 * Pow10(n - 1)

RECURSIVE BNorm(_)
BNorm(a) ==
    IF a = <<>> THEN <<>>
    ELSE IF a[Len(a)] = 0 THEN BNorm(SubSeq(a, 1, Len(a) - 1))
    ELSE a

RECURSIVE BFromInt(_)
BFromInt(n) ==
    IF n = 0 THEN <<>> ELSE <<n % LimbBase>> \o BFromInt(n \div LimbBase)

RECURSIVE BToInt(_)
BToInt(a) ==
    IF a = <<>> THEN 0 ELSE a[1] + LimbBase * BToInt(Tail(a))

Limb(a, i) == IF i <= Len(a) THEN a[i] ELSE 0

RECURSIVE BAddC(_, _, _, _)
BAddC(a, b, i, carry) ==
    IF i > Len(a) /\ i > Len(b)
    THEN IF carry = 0 THEN <<>> ELSE <<carry>>
    ELSE LET s == Limb(a, i) + Limb(b, i) + carry
         IN  <<s % LimbBase>> \o BAddC(a, b, i + 1, s \div LimbBase)

BAdd(a, b) == BAddC(a, b, 1, 0)

\* a - b for a >= b
RECURSIVE BSubC(_, _, _, _)
BSubC(a, b, i, borrow) ==
    IF i > Len(a) THEN <<>>
    ELSE LET d == Limb(a, i) - Limb(b, i) - borrow
         IN  IF d < 0
             THEN <<d + LimbBase>> \o BSubC(a, b, i + 1, 1)
             ELSE <<d>> \o BSubC(a, b, i + 1, 0)

BSub(a, b) == BNorm(BSubC(a, b, 1, 0))

\* a * k for a machine-size k < 2^16
RECURSIVE BMulSmallC(_, _, _, _)
BMulSmallC(a, k, i, carry) ==
    IF i > Len(a)
    THEN IF carry = 0 THEN <<>> ELSE <<carry>>
    ELSE LET p == a[i] * k + carry
         IN  <<p % LimbBase>> \o BMulSmallC(a, k, i + 1, p \div LimbBase)

BMulSmall(a, k) == BNorm(BMulSmallC(a, k, 1, 0))

RECURSIVE BMul(_, _)
BMul(a, b) ==
    IF b = <<>> \/ a = <<>> THEN <<>>
    ELSE LET rest == BMul(a, Tail(b))
         IN  BAdd(BMulSmall(a, b[1]),
                  IF rest = <<>> THEN <<>> ELSE <<0>> \o rest)

\* a divided by a machine-size d < 2^16: quotient q and remainder r
RECURSIVE BDivSmallC(_, _, _, _)
BDivSmallC(a, d, i, rem) ==
    IF i = 0 THEN [q |-> <<>>, r |-> rem]
    ELSE LET cur  == rem * LimbBase + a[i]
             rest == BDivSmallC(a, d, i - 1, cur % d)
         IN  [q |-> rest.q \o <<cur \div d>>, r |-> rest.r]

BDivNorm(x) == [q |-> BNorm(x.q), r |-> x.r]

BDivSmall(a, d) == BDivNorm(BDivSmallC(a, d, Len(a), 0))

RECURSIVE BitLenInt(_)
BitLenInt(n) == IF n = 0 THEN 0 ELSE 1 + BitLenInt(n \div 2)

BBitLen(a) ==
    IF a = <<>> THEN 0
    ELSE LimbBits * (Len(a) - 1) + BitLenInt(a[Len(a)])

BShl(a, n) ==
    IF a = <<>> THEN <<>>
    ELSE BMulSmall([i \in 1..(n \div LimbBits) |-> 0] \o a,
                   Pow2(n % LimbBits))

\* a shifted right by n bits: quotient q, and whether a set bit was dropped
BShrParts(low, d) ==
    [q |-> d.q, sticky |-> d.r # 0 \/ \E i \in 1..Len(low) : low[i] # 0]

BShrLimbs(a, k, bits) ==
    BShrParts(SubSeq(a, 1, IF k < Len(a) THEN k ELSE Len(a)),
              BDivSmall(IF k < Len(a) THEN SubSeq(a, k + 1, Len(a))
                        ELSE <<>>,
                        Pow2(bits)))

BShr(a, n) == BShrLimbs(a, n \div LimbBits, n % LimbBits)

BOdd(a) == a # <<>> /\ a[1] % 2 = 1

RECURSIVE BCmpFrom(_, _, _)
BCmpFrom(a, b, i) ==
    IF i = 0 THEN 0
    ELSE IF a[i] < b[i] THEN -1
    ELSE IF a[i] > b[i] THEN 1
    ELSE BCmpFrom(a, b, i - 1)

\* -1, 0, 1 as a < b, a = b, a > b (both normalised)
BCmp(a, b) ==
    IF Len(a) < Len(b) THEN -1
    ELSE IF Len(a) > Len(b) THEN 1
    ELSE BCmpFrom(a, b, Len(a))

(***************************************************************************)
(* binary64 floats.  A float is [m, e] with value m * 2^e, where m has     *)
(* exactly MantBits bits, or m = <<>> for zero.  All values handled by the *)
(* generators are non-negative and far from the exponent limits.           *)
(***************************************************************************)
FZero == [m |-> <<>>, e |-> 0]

\* the float nearest to (n + f) * 2^e, where 0 <= f < 1 and f > 0 iff sticky
\* a carry out of the mantissa: one more shift
Renormalise(m1, e) ==
    IF BBitLen(m1) > MantBits
    THEN [m |-> BShr(m1, 1).q, e |-> e + 1]
    ELSE [m |-> m1, e |-> e]

\* q is the kept part, guard the first dropped bit, sticky the rest
RoundUp(q, guard, sticky, e) ==
    Renormalise(IF guard /\ (sticky \/ BOdd(q)) THEN BAdd(q, <<1>>) ELSE q,
                e)

\* t is n shifted right so that one bit beyond the mantissa is left
RoundGuard(t, e, sticky) ==
    RoundUp(BShr(t.q, 1).q, BOdd(t.q), sticky \/ t.sticky, e)

RoundBits(n, e, sticky, len) ==
    IF len <= MantBits
    THEN [m |-> BShl(n, MantBits - len), e |-> e - (MantBits - len)]
    ELSE RoundGuard(BShr(n, len - MantBits - 1), e + (len - MantBits),
                    sticky)

RoundNearestEven(n, e, sticky) ==
    IF n = <<>> THEN FZero ELSE RoundBits(n, e, sticky, BBitLen(n))

\* x * y
FMul(x, y) == RoundNearestEven(BMul(x.m, y.m), x.e + y.e, FALSE)

\* x / d for a float d that is the machine-size integer d
FRoundQuotient(qr, e) == RoundNearestEven(qr.q, e, qr.r # 0)

FDivSmall(x, d) ==
    FRoundQuotient(BDivSmall(BShl(x.m, 2 * LimbBits), d), x.e - 2 * LimbBits)

\* a divided by b > 0, limb by limb from the top: quotient q, remainder r.
\* The divisor is first shifted so that its top limb has all its bits; the
\* top limbs of the running remainder and of the divisor then bound each
\* quotient digit to a few candidates.
DigitLow(cur, b) ==
    (Limb(cur, Len(b) + 1) * LimbBase + Limb(cur, Len(b)))
        \div (b[Len(b)] + 1)

DigitHigh(cur, b) ==
    (Limb(cur, Len(b) + 1) * LimbBase + Limb(cur, Len(b)) + 1)
        \div b[Len(b)]

DigitFits(cur, b, d) ==
    BCmp(BMulSmall(b, d), cur) <= 0 /\ BCmp(BMulSmall(b, d + 1), cur) > 0

BDigit(cur, b) ==
    CHOOSE d \in DigitLow(cur, b)..DigitHigh(cur, b) : DigitFits(cur, b, d)

RECURSIVE BDivC(_, _, _, _, _)
BDivPut(a, b, i, cur, q, d) ==
    BDivC(a, b, i - 1, BSub(cur, BMulSmall(b, d)), <<d>> \o q)

BDivStep(a, b, i, cur, q) == BDivPut(a, b, i, cur, q, BDigit(cur, b))

BDivC(a, b, i, rem, q) ==
    IF i = 0 THEN [q |-> BNorm(q), r |-> rem]
    ELSE BDivStep(a, b, i, BNorm(<<a[i]>> \o rem), q)

BDivShifted(x, sh) == [q |-> x.q, r |-> BShr(x.r, sh).q]

BDivBy(a, b, sh) ==
    BDivShifted(BDivC(BShl(a, sh), BShl(b, sh), Len(BShl(a, sh)), <<>>, <<>>),
                sh)

BDiv(a, b) == BDivBy(a, b, LimbBits - BitLenInt(b[Len(b)]))

\* x / y for y > 0
FDivRound(qr, e) == RoundNearestEven(qr.q, e, qr.r # <<>>)

FDiv(x, y) ==
    IF x.m = <<>> THEN FZero
    ELSE FDivRound(BDiv(BShl(x.m, 4 * LimbBits), y.m),
                   x.e - y.e - 4 * LimbBits)

\* a divided by 10^p, four decimal digits at a time
RECURSIVE BDivPow10(_, _)
RECURSIVE BDivPow10Step(_, _)
BDivPow10Step(qr, p) ==
    IF qr.r # 0 THEN [q |-> BDivPow10(qr.q, p).q, sticky |-> TRUE]
    ELSE BDivPow10(qr.q, p)

BDivPow10(a, p) ==
    IF p = 0 THEN [q |-> a, sticky |-> FALSE]
    ELSE BDivPow10Step(BDivSmall(a, Pow10(IF p >= 4 THEN 4 ELSE p)),
                       p - (IF p >= 4 THEN 4 ELSE p))

\* the float a decimal literal n * 10^-p denotes (correctly rounded)
FRoundSticky(d, e) == RoundNearestEven(d.q, e, d.sticky)

FromDecimal(n, p) ==
    FRoundSticky(BDivPow10(BShl(BFromInt(n), 8 * LimbBits), p),
                 0 - 8 * LimbBits)

FromInt(n) == FromDecimal(n, 0)

RECURSIVE BMulPow10(_, _)
BMulPow10(a, p) == IF p = 0 THEN a ELSE BMulPow10(BMulSmall(a, 10), p - 1)

\* the float a literal n * 10^ex denotes, e.g. 220e-12, 1e12
FromSci(n, ex) ==
    IF ex >= 0 THEN RoundNearestEven(BMulPow10(BFromInt(n), ex), 0, FALSE)
    ELSE FromDecimal(n, 0 - ex)

\* -1, 0, 1 as x < y, x = y, x > y
FCmp(x, y) ==
    IF x.m = <<>> THEN (IF y.m = <<>> THEN 0 ELSE -1)
    ELSE IF y.m = <<>> THEN 1
    ELSE IF x.e < y.e THEN -1
    ELSE IF x.e > y.e THEN 1
    ELSE BCmp(x.m, y.m)

FLt(x, y) == FCmp(x, y) < 0
FLe(x, y) == FCmp(x, y) <= 0
FGt(x, y) == FCmp(x, y) > 0
FGe(x, y) == FCmp(x, y) >= 0

\* int(x): truncation toward zero
FTrunc(x) ==
    IF x.e >= 0 THEN BToInt(BShl(x.m, x.e))
    ELSE BToInt(BShr(x.m, 0 - x.e).q)

\* round(x): nearest integer, ties to even; Python ints are unbounded
PyRoundUp(q, guard, sticky) ==
    IF guard /\ (sticky \/ BOdd(q)) THEN BAdd(q, <<1>>) ELSE q

PyRoundGuard(t) == PyRoundUp(BShr(t.q, 1).q, BOdd(t.q), t.sticky)

PyRoundB(x) ==
    IF x.e >= 0 THEN BShl(x.m, x.e)
    ELSE PyRoundGuard(BShr(x.m, (0 - x.e) - 1))

PyRound(x) == BToInt(PyRoundB(x))

\* x - w for the integer w = int(x); the difference is exact
FSubInt(x, w) ==
    IF x.e >= 0 THEN FZero
    ELSE RoundNearestEven(BSub(x.m, BShl(BFromInt(w), 0 - x.e)), x.e, FALSE)

(***************************************************************************)
(* Strings are sequences of one-character strings, so that formatting and  *)
(* concatenation are computed and lengths and positions can be inspected.  *)
(***************************************************************************)
DigitChars == <<"0", "1", "2", "3", "4", "5", "6", "7", "8", "9">>

DigitChar(d) == DigitChars[d + 1]

IsDigit(c) == \E d \in 0..9 : c = DigitChar(d)

\* f"{n}" for an integer n >= 0
RECURSIVE BToStr(_)
RECURSIVE BToStrStep(_)
BToStrStep(qr) ==
    IF qr.q = <<>> THEN <<DigitChar(qr.r)>>
    ELSE BToStr(qr.q) \o <<DigitChar(qr.r)>>

BToStr(a) == BToStrStep(BDivSmall(a, 10))

IntToStr(n) == BToStr(BFromInt(n))

\* f"{n:0wd}": at least w characters, zero-filled on the left
ZeroPad(str, w) ==
    IF Len(str) >= w THEN str
    ELSE [i \in 1..(w - Len(str)) |-> "0"] \o str

(***************************************************************************)
(* f"{x:g}" and f"{x:.3g}": x correctly rounded (ties to even) to prec     *)
(* significant decimal digits; fixed notation for a decimal exponent from  *)
(* -4 to prec - 1, otherwise d.ddde+XX; trailing zeros are removed.        *)
(***************************************************************************)
\* x = FNum(x) / FDen(x)
FNum(x) == IF x.e >= 0 THEN BShl(x.m, x.e) ELSE x.m

FDen(x) == IF x.e >= 0 THEN <<1>> ELSE BShl(<<1>>, 0 - x.e)

\* (a / b) * 10^s as a fraction
DecScale(a, b, s) ==
    IF s >= 0 THEN [n |-> BMulPow10(a, s), d |-> b]
    ELSE [n |-> a, d |-> BMulPow10(b, 0 - s)]

FracGe1(f) == BCmp(f.n, f.d) >= 0

\* the decimal exponent of a / b, for 1e-5 <= a / b < 1e17
DecExponent(a, b) ==
    CHOOSE k \in (0 - 5)..16 :
        FracGe1(DecScale(a, b, 0 - k)) /\ ~FracGe1(DecScale(a, b, 0 - k - 1))

HalfEvenUp(q, c) == IF c > 0 \/ (c = 0 /\ BOdd(q)) THEN BAdd(q, <<1>>) ELSE q

HalfEvenB(qr, d) == HalfEvenUp(qr.q, BCmp(BMulSmall(qr.r, 2), d))

RoundFrac(f) == BToInt(HalfEvenB(BDiv(f.n, f.d), f.d))

\* rounding up to 10^prec moves to the next decade
SigRounded(d, ex, prec) ==
    IF d = Pow10(prec)
    THEN [digits |-> IntToStr(Pow10(prec - 1)), exp |-> ex + 1]
    ELSE [digits |-> IntToStr(d), exp |-> ex]

SigDigitsAt(a, b, ex, prec) ==
    SigRounded(RoundFrac(DecScale(a, b, prec - 1 - ex)), ex, prec)

SigDigits(x, prec) ==
    SigDigitsAt(FNum(x), FDen(x), DecExponent(FNum(x), FDen(x)), prec)

RECURSIVE StripZeros(_)
StripZeros(str) ==
    IF str # <<>> /\ str[Len(str)] = "0"
    THEN StripZeros(SubSeq(str, 1, Len(str) - 1))
    ELSE str

WithPoint(whole, frac) ==
    IF frac = <<>> THEN whole ELSE whole \o <<".">> \o frac

GFixed(digits, ex) ==
    IF ex >= 0
    THEN WithPoint(SubSeq(digits, 1, ex + 1),
                   StripZeros(SubSeq(digits, ex + 2, Len(digits))))
    ELSE WithPoint(<<"0">>,
                   StripZeros([i \in 1..((0 - ex) - 1) |-> "0"] \o digits))

GExponent(digits, ex) ==
    WithPoint(<<digits[1]>>, StripZeros(Tail(digits)))
    \o (IF ex < 0 THEN <<"e", "-">> \o ZeroPad(IntToStr(0 - ex), 2)
        ELSE <<"e", "+">> \o ZeroPad(IntToStr(ex), 2))

GLayout(sd, prec) ==
    IF sd.exp >= 0 - 4 /\ sd.exp < prec THEN GFixed(sd.digits, sd.exp)
    ELSE GExponent(sd.digits, sd.exp)

FormatG(x, prec) ==
    IF x.m = <<>> THEN <<"0">> ELSE GLayout(SigDigits(x, prec), prec)

\* the outcome of a call: a raised ValueError, or a returned string
Raised == [raised |-> TRUE, code |-> <<>>]
Returned(str) == [raised |-> FALSE, code |-> str]
NoResult == [raised |-> FALSE, code |-> <<"?">>]

(***************************************************************************)
(* erj_6en_mpn_generator.py: generate_resistance_code                      *)
(***************************************************************************)
MIN_RESISTANCE == FromInt(10)
MAX_RESISTANCE == FromInt(2200000)

\* variant: the lower bound taken exclusive
ResistanceOutOfRangeExclusive(value) ==
    FLe(value, MIN_RESISTANCE) \/ FGt(value, MAX_RESISTANCE)

ResistanceOutOfRange(value) ==
    FLt(value, MIN_RESISTANCE) \/ FGt(value, MAX_RESISTANCE)

\* variant: the tenths digit is not encoded
ResistanceRNotationWhole(value) ==
    ZeroPad(IntToStr(FTrunc(value)), 2) \o <<"R", "0">>

\* values below 100 ohm: R notation
ResistanceRNotation(value) ==
    LET whole   == FTrunc(value)
        decimal == PyRound(FMul(FSubInt(value, whole), FromInt(10)))
    IN  ZeroPad(IntToStr(whole), 2) \o <<"R">> \o IntToStr(decimal)

\* the multiplier digit: 0 = x1 ... 4 = x10000
ResistanceMultiplier(value) ==
    IF FLt(value, FromInt(1000)) THEN 0
    ELSE IF FLt(value, FromInt(10000)) THEN 1
    ELSE IF FLt(value, FromInt(100000)) THEN 2
    ELSE IF FLt(value, FromInt(1000000)) THEN 3
    ELSE 4

ResistanceSignificant(value) ==
    LET mult == ResistanceMultiplier(value)
    IN  IF mult = 0 THEN PyRound(value)
        ELSE PyRound(FDivSmall(value, Pow10(mult)))

generate_resistance_code(value) ==
    IF ResistanceOutOfRange(value) THEN Raised
    ELSE IF FLt(value, FromInt(100))
    THEN Returned(ResistanceRNotation(value))
    ELSE Returned(ZeroPad(IntToStr(ResistanceSignificant(value)), 3)
                  \o <<DigitChar(ResistanceMultiplier(value))>>)

\* format_resistance_value
clean_number(num) == FormatG(num, 6)

format_resistance_value(value) ==
    IF FGe(value, FromInt(1000000))
    THEN clean_number(FDiv(value, FromInt(1000000))) \o <<" ", "M", "Ω">>
    ELSE IF FGe(value, FromInt(1000))
    THEN clean_number(FDiv(value, FromInt(1000))) \o <<" ", "k", "Ω">>
    ELSE clean_number(value) \o <<" ", "Ω">>

(***************************************************************************)
(* gcm_mpn_generator.py: generate_capacitance_code                         *)
(***************************************************************************)
MIN_CAPACITANCE == FromSci(1, -12)
MAX_CAPACITANCE == FromSci(1, -2)

\* variant: the upper bound taken as 10,000 pF
CapacitanceOutOfRangeNarrow(capacitance) ==
    FLt(capacitance, MIN_CAPACITANCE) \/ FGt(capacitance, FromSci(1, -8))

CapacitanceOutOfRange(capacitance) ==
    FLt(capacitance, MIN_CAPACITANCE) \/ FGt(capacitance, MAX_CAPACITANCE)

PfValue(capacitance) == FMul(capacitance, FromSci(1, 12))

CapacitanceRNotation(pf_value) ==
    LET whole   == FTrunc(pf_value)
        decimal == FTrunc(FMul(FSubInt(pf_value, whole), FromInt(10)))
    IN  IntToStr(whole) \o <<"R">> \o IntToStr(decimal)

\* variant: no increment of the multiples of 10
CapacitanceSignificantPlain(pf_value) == PyRoundB(pf_value)

\* a rounded value that is a multiple of 10 is incremented by 1
CapacitanceSignificant(pf_value) ==
    LET significant == PyRoundB(pf_value)
    IN  IF BDivSmall(significant, 10).r = 0
        THEN BAdd(significant, <<1>>)
        ELSE significant

generate_capacitance_code(capacitance) ==
    IF CapacitanceOutOfRange(capacitance) THEN Raised
    ELSE LET pf_value == PfValue(capacitance)
         IN  IF FLt(pf_value, FromInt(10))
             THEN Returned(CapacitanceRNotation(pf_value))
             ELSE Returned(ZeroPad(BToStr(CapacitanceSignificant(pf_value)),
                                   3))

\* format_capacitance
format_capacitance(capacitance) ==
    IF FGe(capacitance, FromSci(1, -6))
    THEN FormatG(FDiv(capacitance, FromSci(1, -6)), 3) \o <<" ", "µ", "F">>
    ELSE IF FGe(capacitance, FromSci(1, -9))
    THEN FormatG(FDiv(capacitance, FromSci(1, -9)), 3) \o <<" ", "n", "F">>
    ELSE FormatG(FDiv(capacitance, FromSci(1, -12)), 3) \o <<" ", "p", "F">>

(***************************************************************************)
(* Configuration tables.  Table entries are decimal literals with one      *)
(* fractional digit; they are kept in tenths and converted where used.     *)
(***************************************************************************)
E96_BASE_VALUES ==
    << 100, 102, 105, 107, 110, 113, 115, 118, 121, 124, 127, 130,
       133, 137, 140, 143, 147, 150, 154, 158, 162, 165, 169, 174,
       178, 182, 187, 191, 196, 200, 205, 210, 215, 221, 226, 232,
       237, 243, 249, 255, 261, 267, 274, 280, 287, 294, 301, 309,
       316, 324, 332, 340, 348, 357, 365, 374, 383, 392, 402, 412,
       422, 432, 442, 453, 464, 475, 487, 499, 511, 523, 536, 549,
       562, 576, 590, 604, 619, 634, 649, 665, 681, 698, 715, 732,
       750, 768, 787, 806, 825, 845, 866, 887, 909, 931, 953, 976 >>

\* variant: two neighbouring entries transposed
E24_BASE_VALUES_transposed ==
    << 100, 110, 120, 130, 150, 160, 180, 200, 220, 240, 270, 300,
       330, 360, 390, 470, 430, 510, 560, 620, 680, 750, 820, 910 >>

E24_BASE_VALUES ==
    << 100, 110, 120, 130, 150, 160, 180, 200, 220, 240, 270, 300,
       330, 360, 390, 430, 470, 510, 560, 620, 680, 750, 820, 910 >>

\* variant: two neighbouring entries transposed
e12_multipliers_transposed ==
    << 10, 12, 15, 18, 22, 27, 33, 47, 39, 56, 68, 82 >>

e12_multipliers == << 10, 12, 15, 18, 22, 27, 33, 39, 47, 56, 68, 82 >>

\* the float of a table entry
Tenths(t) == FromSci(t, -1)

(***************************************************************************)
(* Calls of the two encoders.  An argument is a decimal literal            *)
(* n * 10^-p (ohms, respectively farads).                                  *)
(***************************************************************************)
Window == 40
MaxDecade == 6
MaxRuns == 2

NoGen == [fn |-> "none"]

ResBoundaries == {10, 100, 1000, 10000, 100000, 1000000, 2200000}

\* resistance literals in hundredths of an ohm: the neighbourhoods of the
\* range bounds and of the notation changes, the E96 values of the six
\* decades 10 ohm .. 9.76 Mohm, and 5.0 and 2,300,000.0
ResInputs ==
    {100 * b + d : b \in ResBoundaries, d \in (0 - Window)..Window}
    \cup {10 * E96_BASE_VALUES[i] * Pow10(k) : i \in 1..96, k \in 0..5}
    \cup {500, 230000000}

\* capacitance literals: hundredths of a pF around 1, 10, 100, 1000 pF,
\* the neighbourhoods of 1e-8 F and 1e-2 F, and the E12 nominal values
CapInputs ==
    {[n |-> 100 * b + d, p |-> 14] :
        b \in {1, 10, 100, 1000}, d \in (0 - Window)..Window}
    \cup {[n |-> 1000 + d, p |-> 11] : d \in (0 - Window)..Window}
    \cup {[n |-> 1000 + d, p |-> 5] : d \in (0 - Window)..Window}
    \cup {[n |-> e12_multipliers[i] * Pow10(k), p |-> 13] :
            i \in 1..12, k \in 0..MaxDecade}
    \cup {[n |-> 5, p |-> 12], [n |-> 100, p |-> 12]}

EncInputs ==
    {[fn |-> "generate_resistance_code", n |-> c, p |-> 2] : c \in ResInputs}
    \cup {[fn |-> "generate_capacitance_code", n |-> x.n, p |-> x.p] :
            x \in CapInputs}

InitEnc ==
    /\ pc = "call"
    /\ arg \in EncInputs
    /\ result = NoResult
    /\ gen = NoGen
    /\ yielded = <<>>
    /\ parts = <<>>
    /\ history = <<>>
    /\ files = <<>>
    /\ stdout = <<>>

CallGenerateResistanceCode ==
    /\ pc = "call"
    /\ arg.fn = "generate_resistance_code"
    /\ result' = generate_resistance_code(FromSci(arg.n, 0 - arg.p))
    /\ pc' = "returned"
    /\ UNCHANGED <<arg, gen, yielded, parts, history, io>>

CallGenerateCapacitanceCode ==
    /\ pc = "call"
    /\ arg.fn = "generate_capacitance_code"
    /\ result' = generate_capacitance_code(FromSci(arg.n, 0 - arg.p))
    /\ pc' = "returned"
    /\ UNCHANGED <<arg, gen, yielded, parts, history, io>>

NextEnc == CallGenerateResistanceCode \/ CallGenerateCapacitanceCode

SpecEnc == InitEnc /\ [][NextEnc]_vars

(***************************************************************************)
(* Exact decimal arithmetic on the literals, used to state the claims      *)
(* independently of the float computation.                                 *)
(***************************************************************************)
\* -1, 0, 1 as n1 * 10^-p1 is below, equal to, above n2 * 10^-p2
DecCmp(n1, p1, n2, p2) ==
    BCmp(BMulPow10(BFromInt(n1), p2), BMulPow10(BFromInt(n2), p1))

\* a / b rounded to the nearest integer, ties to even
HalfEvenDiv(a, b) ==
    LET q == a \div b
        r == a % b
    IN  IF 2 * r > b \/ (2 * r = b /\ q % 2 = 1) THEN q + 1 ELSE q

\* the number a string of decimal digits denotes
RECURSIVE BFromStr(_)
BFromStr(str) ==
    IF str = <<>> THEN <<>>
    ELSE BAdd(BMulSmall(BFromStr(SubSeq(str, 1, Len(str) - 1)), 10),
              BFromInt(CHOOSE d \in 0..9 : DigitChar(d) = str[Len(str)]))

AllDigits(str) == \A i \in 1..Len(str) : IsDigit(str[i])

ReturnedFrom(fn) == pc = "returned" /\ arg.fn = fn

\* C1: for 100 <= v <= 2,200,000 generate_resistance_code(v) is the three
\* zero-padded digits of round(v / 10^m) followed by the multiplier digit m
\* (m = 0 below 1000, 1 below 10,000, 2 below 100,000, 3 below 1,000,000,
\* else 4); for 10 <= v < 100 it is the two-digit whole part, 'R' and one
\* tenths digit; 10.0 -> 10R0, 10.2 -> 10R2, 100.0 -> 1000, 2,200,000 -> 2204.
C1_ResistanceCodeFormat ==
    (ReturnedFrom("generate_resistance_code")
        /\ arg.n >= 1000 /\ arg.n <= 220000000) =>
    LET c == arg.n
        m == IF c < 100000 THEN 0
             ELSE IF c < 1000000 THEN 1
             ELSE IF c < 10000000 THEN 2
             ELSE IF c < 100000000 THEN 3
             ELSE 4
    IN  /\ ~result.raised
        /\ Len(result.code) = 4
        /\ IF c < 10000
           THEN /\ SubSeq(result.code, 1, 2) = IntToStr(c \div 100)
                /\ result.code[3] = "R"
                /\ IsDigit(result.code[4])
                /\ (c % 10 = 0 =>
                        result.code[4] = DigitChar((c % 100) \div 10))
           ELSE /\ AllDigits(SubSeq(result.code, 1, 3))
                /\ BToInt(BFromStr(SubSeq(result.code, 1, 3)))
                       = HalfEvenDiv(c, 100 * Pow10(m))
                /\ result.code[4] = DigitChar(m)

\* C2: generate_resistance_code(v) raises the range error if and only if
\* v < 10 or v > 2,200,000; the bounds themselves are encoded, and a raising
\* call returns no code.
C2_ResistanceRangeError ==
    ReturnedFrom("generate_resistance_code") =>
        /\ result.raised <=> (arg.n < 1000 \/ arg.n > 220000000)
        /\ result.raised => result.code = <<>>
        /\ ~result.raised => Len(result.code) >= 4

C2_Witness ==
    /\ ReturnedFrom("generate_resistance_code")
    /\ arg.n = 230000000
    /\ result.raised

\* C3: for a valid capacitance whose picofarad value p is >= 10 the code is
\* the decimal numeral of round(p), or of round(p) + 1 when round(p) is a
\* multiple of 10; it never ends in the digit 0; 100 pF yields "101".
C3_CapacitanceIncrement ==
    (ReturnedFrom("generate_capacitance_code") /\ ~result.raised
        /\ DecCmp(arg.n, arg.p, 10, 12) >= 0) =>
    LET p == FMul(FromSci(arg.n, 0 - arg.p), FromSci(1, 12))
        r == PyRoundB(p)
        n == IF BDivSmall(r, 10).r = 0 THEN BAdd(r, <<1>>) ELSE r
    IN  /\ AllDigits(result.code)
        /\ BFromStr(result.code) = n
        /\ result.code[Len(result.code)] # "0"
        /\ (DecCmp(arg.n, arg.p, 100, 12) = 0 =>
                result.code = <<"1", "0", "1">>)

C3_Witness ==
    /\ ReturnedFrom("generate_capacitance_code")
    /\ arg.n = 100 /\ arg.p = 12
    /\ result = Returned(<<"1", "0", "1">>)

\* C4 as stated: generate_capacitance_code raises the range error for every
\* capacitance outside [1 pF, 10,000 pF] and returns a code inside it.
C4_Original ==
    ReturnedFrom("generate_capacitance_code") =>
        (result.raised <=> (DecCmp(arg.n, arg.p, 1, 12) < 0
                            \/ DecCmp(arg.n, arg.p, 1, 8) > 0))

\* C4 amended: generate_capacitance_code raises the range error exactly for
\* the capacitances outside [1e-12 F, 1e-2 F] (1 pF to 10^10 pF) and returns
\* a code for every capacitance inside that interval.
C4_CapacitanceRangeError ==
    ReturnedFrom("generate_capacitance_code") =>
        /\ result.raised <=> (DecCmp(arg.n, arg.p, 1, 12) < 0
                              \/ DecCmp(arg.n, arg.p, 1, 2) > 0)
        /\ ~result.raised => Len(result.code) >= 3

C4_Witness ==
    /\ ReturnedFrom("generate_capacitance_code")
    /\ DecCmp(arg.n, arg.p, 1, 8) > 0
    /\ DecCmp(arg.n, arg.p, 1, 2) <= 0
    /\ ~result.raised

(***************************************************************************)
(* The value generators.  A Python generator is resumed by next(): one     *)
(* action runs the loops from the position where the generator is          *)
(* suspended up to the next yield, or to the end of the function.          *)
(***************************************************************************)
\* gcm_mpn_generator.py: generate_standard_values.  A position is the
\* decade anchor, the number k of times it was multiplied, and the index i
\* of the multiplier examined next; the while condition is evaluated when
\* a pass over the multipliers begins (i = 1).
\* variant: the decade is multiplied by 100
StandardAdvanceSkipping(pos) ==
    IF pos.i < Len(e12_multipliers)
    THEN [pos EXCEPT !.i = pos.i + 1]
    ELSE [decade |-> FMul(pos.decade, FromInt(100)), k |-> pos.k + 1, i |-> 1]

StandardAdvance(pos) ==
    IF pos.i < Len(e12_multipliers)
    THEN [pos EXCEPT !.i = pos.i + 1]
    ELSE [decade |-> FMul(pos.decade, FromInt(10)), k |-> pos.k + 1, i |-> 1]

StandardInRange(value, min_value, max_value) ==
    FLe(min_value, value) /\ FLe(value, max_value)

\* the indexes, from pos.i on, of the multipliers of this pass over the
\* table whose product with the decade lies in the range
StandardHits(pos, min_value, max_value) ==
    {i \in pos.i..Len(e12_multipliers) :
        StandardInRange(FMul(pos.decade, Tenths(e12_multipliers[i])),
                        min_value, max_value)}

\* the generator suspended at the yield of multiplier i
StandardYield(pos, i) ==
    [stop |-> FALSE, pos |-> [pos EXCEPT !.i = i],
     value |-> FMul(pos.decade, Tenths(e12_multipliers[i]))]

\* the loops from a position up to the next yield (stop = FALSE) or to the
\* end of the function (stop = TRUE)
RECURSIVE StandardScan(_, _, _)
RECURSIVE StandardScanPass(_, _, _, _)
StandardScanPass(pos, hits, min_value, max_value) ==
    IF hits = {}
    THEN StandardScan(
             StandardAdvance([pos EXCEPT !.i = Len(e12_multipliers)]),
             min_value, max_value)
    ELSE StandardYield(pos, CHOOSE i \in hits : \A j \in hits : i <= j)

StandardScan(pos, min_value, max_value) ==
    IF pos.i = 1 /\ ~FLe(pos.decade, max_value)
    THEN [stop |-> TRUE, pos |-> pos, value |-> FZero]
    ELSE StandardScanPass(pos, StandardHits(pos, min_value, max_value),
                          min_value, max_value)

StandardStart == [decade |-> FromSci(1, -12), k |-> 0, i |-> 1]

\* erj_6en_mpn_generator.py: generate_resistance_values.  A position is the
\* index b of the base value, the current value and the number k of times
\* it was multiplied; the while condition is evaluated at the position.
BaseTable(name) ==
    IF name = "E96" THEN E96_BASE_VALUES
    ELSE IF name = "E24" THEN E24_BASE_VALUES
    ELSE <<10, 22, 47>>

ResistanceStep(current_value) == FMul(current_value, FromInt(10))

RECURSIVE ResistanceScan(_, _)
ResistanceScan(pos, base_values) ==
    IF pos.b > Len(base_values)
    THEN [stop |-> TRUE, pos |-> pos]
    ELSE IF FLe(pos.current_value, MAX_RESISTANCE)
    THEN IF FGe(pos.current_value, MIN_RESISTANCE)
         THEN [stop |-> FALSE, pos |-> pos]
         ELSE ResistanceScan(
                  [pos EXCEPT !.current_value = ResistanceStep(@),
                              !.k = @ + 1], base_values)
    ELSE ResistanceScan(
             [b |-> pos.b + 1,
              current_value |-> IF pos.b < Len(base_values)
                                THEN Tenths(base_values[pos.b + 1])
                                ELSE FZero,
              k |-> 0], base_values)

ResistanceStart(base_values) ==
    [b |-> 1,
     current_value |-> IF base_values = <<>> THEN FZero
                       ELSE Tenths(base_values[1]),
     k |-> 0]

\* range bounds handed to generate_standard_values, as literals n * 10^-p F
RangeLiterals ==
    { [n |-> 220, p |-> 12], [n |-> 1, p |-> 7],  [n |-> 1, p |-> 12],
      [n |-> 1, p |-> 11],   [n |-> 100, p |-> 12], [n |-> 1, p |-> 9],
      [n |-> 22, p |-> 13],  [n |-> 47, p |-> 12], [n |-> 33, p |-> 10],
      [n |-> 1, p |-> 8],    [n |-> 25, p |-> 11], [n |-> 82, p |-> 9],
      [n |-> 33, p |-> 11] }

GenInputs ==
    {[fn |-> "generate_standard_values", min_value |-> r[1],
      max_value |-> r[2], pos |-> StandardStart] :
        r \in {x \in RangeLiterals \X RangeLiterals :
                  DecCmp(x[1].n, x[1].p, x[2].n, x[2].p) <= 0}}
    \cup {[fn |-> "generate_resistance_values", base_values |-> t,
           pos |-> ResistanceStart(BaseTable(t))] :
            t \in {"E96", "E24", "E3"}}

InitGen ==
    /\ pc = "suspended"
    /\ gen \in GenInputs
    /\ yielded = <<>>
    /\ arg = [fn |-> "none", n |-> 0, p |-> 0]
    /\ result = NoResult
    /\ parts = <<>>
    /\ history = <<>>
    /\ files = <<>>
    /\ stdout = <<>>

\* the generator stops at the yield r found, or returns
StandardValuesResume(r) ==
    IF r.stop
    THEN /\ pc' = "exhausted"
         /\ gen' = [gen EXCEPT !.pos = r.pos]
         /\ UNCHANGED yielded
    ELSE /\ pc' = "suspended"
         /\ gen' = [gen EXCEPT !.pos = StandardAdvance(r.pos)]
         /\ yielded' = Append(yielded,
                [value |-> r.value, k |-> r.pos.k, i |-> r.pos.i])

ResistanceValuesResume(r) ==
    IF r.stop
    THEN /\ pc' = "exhausted"
         /\ gen' = [gen EXCEPT !.pos = r.pos]
         /\ UNCHANGED yielded
    ELSE /\ pc' = "suspended"
         /\ gen' = [gen EXCEPT !.pos =
                       [r.pos EXCEPT !.current_value = ResistanceStep(@),
                                     !.k = @ + 1]]
         /\ yielded' = Append(yielded,
                [value |-> r.pos.current_value, k |-> r.pos.k,
                 i |-> r.pos.b])

\* next() on generate_standard_values
StandardValuesNext ==
    /\ pc = "suspended"
    /\ gen.fn = "generate_standard_values"
    /\ StandardValuesResume(
           StandardScan(gen.pos,
                        FromSci(gen.min_value.n, 0 - gen.min_value.p),
                        FromSci(gen.max_value.n, 0 - gen.max_value.p)))
    /\ UNCHANGED <<arg, result, parts, history, io>>

\* next() on generate_resistance_values
ResistanceValuesNext ==
    /\ pc = "suspended"
    /\ gen.fn = "generate_resistance_values"
    /\ ResistanceValuesResume(
           ResistanceScan(gen.pos, BaseTable(gen.base_values)))
    /\ UNCHANGED <<arg, result, parts, history, io>>

\* the generator function is called again with the same arguments: a new
\* generator object; history keeps what the finished one yielded
GeneratorRestart ==
    /\ pc = "exhausted"
    /\ Len(history) < MaxRuns - 1
    /\ pc' = "suspended"
    /\ gen' = [gen EXCEPT !.pos =
                  IF gen.fn = "generate_standard_values" THEN StandardStart
                  ELSE ResistanceStart(BaseTable(gen.base_values))]
    /\ history' = Append(history, yielded)
    /\ yielded' = <<>>
    /\ UNCHANGED <<arg, result, parts, io>>

NextGen == StandardValuesNext \/ ResistanceValuesNext \/ GeneratorRestart

SpecGen == InitGen /\ [][NextGen]_vars

\* -1, 0, 1 as t * 10^k tenths is below, equal to, above n * 10^-p
TenthsCmp(t, k, n, p) ==
    BCmp(BMulPow10(BFromInt(t), k + (IF p > 0 THEN p ELSE 0)),
         BMulPow10(BFromInt(n), 1 + (IF p < 0 THEN 0 - p ELSE 0)))

Exhausted(fn) == pc = "exhausted" /\ gen.fn = fn

\* the (decade, table index) pairs of the products m * 10^k pF of the E12
\* table that lie in [lo, hi], in exact arithmetic
ExactStandardPositions(lo, hi) ==
    {x \in (0..MaxDecade) \X (1..Len(e12_multipliers)) :
        /\ TenthsCmp(e12_multipliers[x[2]], x[1], lo.n, lo.p - 12) >= 0
        /\ TenthsCmp(e12_multipliers[x[2]], x[1], hi.n, hi.p - 12) <= 0}

\* the (decade, table index) pairs of the products b * 10^k of a base
\* table that lie in [10, 2,200,000], in exact arithmetic
ExactResistancePositions(name) ==
    {x \in (0..MaxDecade) \X (1..Len(BaseTable(name))) :
        /\ TenthsCmp(BaseTable(name)[x[2]], x[1], 10, 0) >= 0
        /\ TenthsCmp(BaseTable(name)[x[2]], x[1], 2200000, 0) <= 0}

YieldedPositions == {<<yielded[j].k, yielded[j].i>> : j \in 1..Len(yielded)}

\* C5: the values generate_standard_values(min_value, max_value) yields are
\* exactly the products m * 10^k pF (m in the E12 table, k >= 0) with
\* min_value <= product <= max_value, a product equal to a bound included;
\* the values generate_resistance_values yields are exactly the products
\* b * 10^k with 10 <= product <= 2,200,000.
C5_RangeInclusion ==
    /\ Exhausted("generate_standard_values") =>
         YieldedPositions =
             ExactStandardPositions(gen.min_value, gen.max_value)
    /\ Exhausted("generate_resistance_values") =>
         YieldedPositions = ExactResistancePositions(gen.base_values)

\* C6: the sequence generate_standard_values yields is strictly increasing;
\* a lower decade is yielded before a higher one, and within a decade the
\* values follow the table order.
C6_StandardIncreasing ==
    gen.fn = "generate_standard_values" =>
        \A j \in 1..(Len(yielded) - 1) :
            /\ FLt(yielded[j].value, yielded[j + 1].value)
            /\ \/ yielded[j].k < yielded[j + 1].k
               \/ /\ yielded[j].k = yielded[j + 1].k
                  /\ yielded[j].i < yielded[j + 1].i

C6_Witness ==
    /\ Exhausted("generate_standard_values")
    /\ Len(yielded) > Len(e12_multipliers)
    /\ yielded[1].k < yielded[Len(yielded)].k

\* C7 as stated: the sequence generate_resistance_values yields for the E96
\* and E24 tables is strictly increasing, lower decades first.
C7_Original ==
    (gen.fn = "generate_resistance_values"
        /\ gen.base_values \in {"E96", "E24"}) =>
        \A j \in 1..(Len(yielded) - 1) :
            /\ FLt(yielded[j].value, yielded[j + 1].value)
            /\ yielded[j].k <= yielded[j + 1].k

\* C7 amended: generate_resistance_values yields base by base in table
\* order, all decades of one base value before the next base value; the
\* values of one base are strictly increasing, and so are the values of
\* one decade.  (Stated for the newest value against all earlier ones.)
C7_ResistanceBaseMajor ==
    (gen.fn = "generate_resistance_values"
        /\ gen.base_values \in {"E96", "E24"}) =>
        \A j \in 1..(Len(yielded) - 1) :
            LET old == yielded[j]
                new == yielded[Len(yielded)]
            IN  /\ \/ old.i < new.i
                   \/ old.i = new.i /\ old.k < new.k
                /\ (old.i = new.i \/ old.k = new.k) =>
                       FLt(old.value, new.value)

C7_Witness ==
    /\ gen.fn = "generate_resistance_values"
    /\ gen.base_values \in {"E96", "E24"}
    /\ \E j \in 1..(Len(yielded) - 1) :
           FLt(yielded[j + 1].value, yielded[j].value)

(***************************************************************************)
(* Catalog assembly: generate_part_numbers of both families.               *)
(***************************************************************************)
\* the concatenation of seqs[lo], ..., seqs[hi]
RECURSIVE FlattenRange(_, _, _)
FlattenRange(seqs, lo, hi) ==
    IF lo > hi THEN <<>>
    ELSE IF lo = hi THEN seqs[lo]
    ELSE LET mid == (lo + hi) \div 2
         IN  FlattenRange(seqs, lo, mid) \o FlattenRange(seqs, mid + 1, hi)

\* a for loop whose j-th iteration appends the list seqs[j]
Flatten(seqs) == FlattenRange(seqs, 1, Len(seqs))

\* the while loop of generate_resistance_values for one base value
RECURSIVE ResistanceValuesOfBase(_)
ResistanceValuesOfBase(current_value) ==
    IF FLe(current_value, MAX_RESISTANCE)
    THEN (IF FGe(current_value, MIN_RESISTANCE)
          THEN <<current_value>> ELSE <<>>)
         \o ResistanceValuesOfBase(ResistanceStep(current_value))
    ELSE <<>>

\* list(generate_resistance_values(base_values))
generate_resistance_values(base_values) ==
    Flatten([b \in 1..Len(base_values) |->
                ResistanceValuesOfBase(Tenths(base_values[b]))])

\* the while loop of generate_standard_values from one decade on
RECURSIVE StandardValuesFromDecade(_, _, _)
StandardValuesFromDecade(decade, min_value, max_value) ==
    IF FLe(decade, max_value)
    THEN Flatten([i \in 1..Len(e12_multipliers) |->
                     LET value == FMul(decade, Tenths(e12_multipliers[i]))
                     IN  IF StandardInRange(value, min_value, max_value)
                         THEN <<value>> ELSE <<>>])
         \o StandardValuesFromDecade(FMul(decade, FromInt(10)),
                                     min_value, max_value)
    ELSE <<>>

\* list(generate_standard_values(min_value, max_value))
generate_standard_values(min_value, max_value) ==
    StandardValuesFromDecade(StandardStart.decade, min_value, max_value)

\* ---- erj_6en_mpn_generator.py ----
ERJ_BASE_SERIES == <<"E", "R", "J", "-", "6", "E", "N">>
ERJ_VOLTAGE_RATING == <<"1", "5", "0", "V">>
ERJ_PACKAGING_OPTIONS == <<"V">>
\* variant: the series are traversed in the opposite order
ERJ_SeriesType_reversed == <<"E24", "E96">>

ERJ_SeriesType == <<"E96", "E24">>

\* dict items in insertion order
ERJ_TOLERANCE_MAP(series_type) ==
    IF series_type = "E96"
    THEN <<[code |-> "F", value |-> <<"1", "%">>]>>
    ELSE <<[code |-> "J", value |-> <<"5", "%">>]>>

\* variant: the series map is used for every value
ErjToleranceCodesNoOverride(series_type, value) ==
    ERJ_TOLERANCE_MAP(series_type)

\* variant: the override applies from 1 Mohm on
ErjToleranceCodesInclusive(series_type, value) ==
    IF FGe(value, FromInt(1000000))
    THEN <<[code |-> "F", value |-> <<"1", "%">>]>>
    ELSE ERJ_TOLERANCE_MAP(series_type)

\* above 1 Mohm only F (1%) parts are generated
ErjToleranceCodes(series_type, value) ==
    IF FGt(value, FromInt(1000000))
    THEN <<[code |-> "F", value |-> <<"1", "%">>]>>
    ELSE ERJ_TOLERANCE_MAP(series_type)

\* the outcome of create_part_info: the exception of the encoder propagates
\* PartInfo(...); the description text is not carried in the record
ErjPartInfo(value, mpn, tolerance_value) ==
    [symbol_name |-> <<"R", "_">> \o mpn,
     reference |-> "R",
     value |-> value,
     footprint |-> "footprints:R_0805_2012Metric",
     datasheet |-> "https://industrial.panasonic.com/cdbs/www-data/pdf/RDA0000/AOA0000C304.pdf",
     manufacturer |-> "Panasonic",
     mpn |-> mpn,
     tolerance |-> tolerance_value,
     voltage_rating |-> ERJ_VOLTAGE_RATING,
     case_code_in |-> "0805",
     case_code_mm |-> "2012"]

ErjPartOutcome(value, resistance_code, tolerance_code, tolerance_value, packaging) ==
    [raised |-> resistance_code.raised,
     part |-> ErjPartInfo(value,
                          ERJ_BASE_SERIES \o <<tolerance_code>>
                          \o resistance_code.code \o <<packaging>>,
                          tolerance_value)]

erj_create_part_info(value, tolerance_code, tolerance_value, packaging) ==
    ErjPartOutcome(value, generate_resistance_code(value), tolerance_code,
                   tolerance_value, packaging)

\* the loops over the tolerance codes and the packaging options
ErjPartsOfCodes(value, tolerance_codes) ==
    Flatten([t \in 1..Len(tolerance_codes) |->
                [k \in 1..Len(ERJ_PACKAGING_OPTIONS) |->
                    erj_create_part_info(value, tolerance_codes[t].code,
                                         tolerance_codes[t].value,
                                         ERJ_PACKAGING_OPTIONS[k])]])

ErjPartsOf(series_type, value) ==
    ErjPartsOfCodes(value, ErjToleranceCodes(series_type, value))

\* variant: the maximum resistance is excluded
ErjPartsForValueExclusive(series_type, value) ==
    IF FLt(value, MAX_RESISTANCE) THEN ErjPartsOf(series_type, value)
    ELSE <<>>

\* the body of the loop over the values of one series
ErjPartsForValue(series_type, value) ==
    IF FLe(value, MAX_RESISTANCE) THEN ErjPartsOf(series_type, value)
    ELSE <<>>

ErjSeriesOutcomes(series_type) ==
    LET values == generate_resistance_values(BaseTable(series_type))
    IN  Flatten([j \in 1..Len(values) |->
                    ErjPartsForValue(series_type, values[j])])

ErjOutcomes ==
    Flatten([s \in 1..Len(ERJ_SeriesType) |->
                ErjSeriesOutcomes(ERJ_SeriesType[s])])

Outcome(outs) ==
    IF \E j \in 1..Len(outs) : outs[j].raised
    THEN [raised |-> TRUE, parts |-> <<>>]
    ELSE [raised |-> FALSE, parts |-> [j \in 1..Len(outs) |-> outs[j].part]]

erj_generate_part_numbers == Outcome(ErjOutcomes)

\* ---- gcm_mpn_generator.py ----
GCM_TOLERANCE_MAP(tolerance) ==
    IF tolerance = "K" THEN <<"1", "0", " ", "%">> ELSE <<tolerance>>

GCM_VOLTAGE_DISPLAY_MAP(voltage) ==
    IF voltage = <<"1", "H">> THEN <<"5", "0", " ", "V">> ELSE voltage

GCM_DIELECTRIC_MAP(dielectric) == <<"R", "7">>

\* variant: the threshold itself gets the lower code
get_characteristic_code_exclusive(capacitance) ==
    IF FGt(FMul(capacitance, FromSci(1, 6)), FromSci(1, -2))
    THEN <<"A", "5", "5">>
    ELSE <<"A", "3", "7">>

get_characteristic_code(capacitance) ==
    LET value_uf == FMul(capacitance, FromSci(1, 6))
    IN  IF FGe(value_uf, FromSci(1, -2))
        THEN <<"A", "5", "5">>
        ELSE <<"A", "3", "7">>

format_tolerance(tolerance) == GCM_TOLERANCE_MAP(tolerance)

\* PartInfo(...); the description text and the trustedparts link are not
\* carried in the record
GcmPartInfo(capacitance, mpn, voltage, dielectric, tolerance, specs) ==
    [symbol_name |-> <<"C", "_">> \o mpn,
     reference |-> "C",
     value |-> capacitance,
     footprint |-> specs.footprint,
     datasheet |-> specs.datasheet,
     manufacturer |-> "Murata Electronics",
     mpn |-> mpn,
     dielectric |-> dielectric,
     tolerance |-> format_tolerance(tolerance),
     voltage_rating |-> GCM_VOLTAGE_DISPLAY_MAP(voltage),
     case_code_in |-> specs.case_code_in,
     case_code_mm |-> specs.case_code_mm,
     series |-> specs.base_series]

\* variant: the packaging code precedes the capacitance code
GcmPartOutcomePackagingInside(capacitance, capacitance_code, voltage, dielectric, tolerance, packaging, specs) ==
    [raised |-> capacitance_code.raised,
     part |-> GcmPartInfo(capacitance,
                          specs.base_series \o GCM_DIELECTRIC_MAP(dielectric)
                          \o voltage \o <<packaging>>
                          \o capacitance_code.code
                          \o <<tolerance>>
                          \o get_characteristic_code(capacitance),
                          voltage, dielectric, tolerance, specs)]

GcmPartOutcome(capacitance, capacitance_code, voltage, dielectric, tolerance, packaging, specs) ==
    [raised |-> capacitance_code.raised,
     part |-> GcmPartInfo(capacitance,
                          specs.base_series \o GCM_DIELECTRIC_MAP(dielectric)
                          \o voltage \o capacitance_code.code
                          \o <<tolerance>>
                          \o get_characteristic_code(capacitance)
                          \o <<packaging>>,
                          voltage, dielectric, tolerance, specs)]

gcm_create_part_info(capacitance, voltage, dielectric, tolerance, packaging, specs) ==
    GcmPartOutcome(capacitance, generate_capacitance_code(capacitance),
                   voltage, dielectric, tolerance, packaging, specs)

\* the loops over the tolerance and the packaging options
GcmPartsOf(capacitance, voltage, range, specs) ==
    Flatten([t \in 1..Len(specs.tolerance_options) |->
                [k \in 1..Len(specs.packaging_options) |->
                    gcm_create_part_info(capacitance, voltage,
                                         range.dielectric,
                                         specs.tolerance_options[t],
                                         specs.packaging_options[k], specs)]])

\* the loops over one entry of value_range
GcmPartsForRange(range, specs) ==
    LET values == generate_standard_values(
                      FromSci(range.min_value.n, 0 - range.min_value.p),
                      FromSci(range.max_value.n, 0 - range.max_value.p))
    IN  Flatten([v \in 1..Len(specs.voltage_ratings) |->
                    Flatten([j \in 1..Len(values) |->
                                GcmPartsOf(values[j],
                                           specs.voltage_ratings[v],
                                           range, specs)])])

\* sorted(parts_list, key=lambda x: (x.dielectric, x.value)): a stable sort
CharRanks ==
    <<"0", "1", "2", "3", "4", "5", "6", "7", "8", "9",
      "A", "B", "C", "D", "E", "F", "G", "H", "I", "J", "K", "L", "M",
      "N", "O", "P", "Q", "R", "S", "T", "U", "V", "W", "X", "Y", "Z">>

CharRank(c) == CHOOSE r \in 1..Len(CharRanks) : CharRanks[r] = c

RECURSIVE StrCmp(_, _)
StrCmp(a, b) ==
    IF a = <<>> THEN (IF b = <<>> THEN 0 ELSE -1)
    ELSE IF b = <<>> THEN 1
    ELSE IF CharRank(a[1]) < CharRank(b[1]) THEN -1
    ELSE IF CharRank(a[1]) > CharRank(b[1]) THEN 1
    ELSE StrCmp(Tail(a), Tail(b))

\* -1, 0, 1 on the keys (dielectric, value)
KeyCmp(x, y) ==
    LET d == StrCmp(x.dielectric, y.dielectric)
    IN  IF d # 0 THEN d ELSE FCmp(x.value, y.value)

\* the place of element j in the sorted list: after the elements with a
\* smaller key and after the earlier elements with an equal key
SortedPlace(parts_list, j) ==
    1 + Cardinality({i \in 1..Len(parts_list) :
                        LET c == KeyCmp(parts_list[i], parts_list[j])
                        IN  c < 0 \/ (c = 0 /\ i < j)})

\* variant: the list is returned in generation order
GcmUnsorted(parts_list) == parts_list

GcmSorted(parts_list) ==
    LET places == {<<SortedPlace(parts_list, j), j>> :
                       j \in 1..Len(parts_list)}
    IN  [p \in 1..Len(parts_list) |->
            parts_list[(CHOOSE x \in places : x[1] = p)[2]]]

GcmReturn(o) == [raised |-> o.raised, parts |-> GcmSorted(o.parts)]

gcm_generate_part_numbers(specs) ==
    GcmReturn(Outcome(Flatten([r \in 1..Len(specs.value_range) |->
                                  GcmPartsForRange(specs.value_range[r],
                                                   specs)])))

\* SERIES_SPECS["GCM155"], and specifications that differ from it in the
\* option lists and in the value range
X7R == <<"X", "7", "R">>

SeriesSpec(voltage_ratings, tolerance_options, packaging_options, value_range) ==
    [base_series |-> <<"G", "C", "M", "1", "5", "5">>,
     footprint |-> "footprints:C_0402_1005Metric",
     voltage_ratings |-> voltage_ratings,
     case_code_in |-> <<"0", "4", "0", "2">>,
     case_code_mm |-> "1005",
     packaging_options |-> packaging_options,
     tolerance_options |-> tolerance_options,
     datasheet |-> "https://www.murata.com/-/media/webrenewal/support/library/catalog/products/capacitor/mlcc/c02e.ashx",
     value_range |-> value_range]

Range(lo_n, lo_p, hi_n, hi_p) ==
    <<[dielectric |-> X7R, min_value |-> [n |-> lo_n, p |-> lo_p],
       max_value |-> [n |-> hi_n, p |-> hi_p]]>>

GCM155 ==
    SeriesSpec(<< <<"1", "H">> >>, <<"K">>, <<"D", "J">>,
               Range(220, 12, 1, 7))

SpecRanges ==
    { <<>>, Range(220, 12, 1, 7), Range(220, 12, 33, 11),
      Range(1, 12, 1, 11), Range(1, 9, 1, 8), Range(100, 12, 1, 9),
      Range(25, 11, 25, 11) }

SpecInputs ==
    {SeriesSpec(v, t, k, r) :
        v \in { << <<"1", "H">> >>, << <<"1", "H">>, <<"1", "E">> >> },
        t \in { <<"K">>, <<"K", "J">> },
        k \in { <<"D", "J">>, <<"D">> },
        r \in SpecRanges}

CatInputs ==
    {[fn |-> "gcm_generate_part_numbers", specs |-> sp] : sp \in SpecInputs}
    \cup {[fn |-> "erj_generate_part_numbers"]}

InitCat ==
    /\ pc = "call"
    /\ arg \in CatInputs
    /\ result = NoResult
    /\ gen = NoGen
    /\ yielded = <<>>
    /\ parts = <<>>
    /\ history = <<>>
    /\ files = <<>>
    /\ stdout = <<>>

\* the list is handed to the caller, or the exception propagates
\* variant: the list is kept between the calls and grows
ReturnPartNumbersAccumulated(o) ==
    /\ result' = [raised |-> o.raised, code |-> <<>>]
    /\ parts' = parts \o o.parts
    /\ history' = Append(history, [raised |-> o.raised,
                                   parts |-> parts \o o.parts])

\* history keeps what each call returned
ReturnPartNumbers(o) ==
    /\ result' = [raised |-> o.raised, code |-> <<>>]
    /\ parts' = o.parts
    /\ history' = Append(history, [raised |-> o.raised, parts |-> o.parts])

CallErjGeneratePartNumbers ==
    /\ pc \in {"call", "returned"}
    /\ Len(history) < MaxRuns
    /\ arg.fn = "erj_generate_part_numbers"
    /\ ReturnPartNumbers(erj_generate_part_numbers)
    /\ pc' = "returned"
    /\ UNCHANGED <<arg, gen, yielded, io>>

CallGcmGeneratePartNumbers ==
    /\ pc \in {"call", "returned"}
    /\ Len(history) < MaxRuns
    /\ arg.fn = "gcm_generate_part_numbers"
    /\ ReturnPartNumbers(gcm_generate_part_numbers(arg.specs))
    /\ pc' = "returned"
    /\ UNCHANGED <<arg, gen, yielded, io>>

NextCat == CallErjGeneratePartNumbers \/ CallGcmGeneratePartNumbers

SpecCat == InitCat /\ [][NextCat]_vars

ReturnedParts(fn) == pc = "returned" /\ arg.fn = fn /\ ~result.raised

\* C8: in the resistor catalog every record whose value is greater than
\* 1,000,000 carries tolerance code F in its MPN and tolerance display
\* '1%', in the E96 and in the E24 traversal alike; none carries J / '5%'.
C8_ToleranceOverride ==
    ReturnedParts("erj_generate_part_numbers") =>
        \A j \in 1..Len(parts) :
            FGt(parts[j].value, FromInt(1000000)) =>
                /\ parts[j].mpn[Len(ERJ_BASE_SERIES) + 1] = "F"
                /\ parts[j].tolerance = <<"1", "%">>

C8_Witness ==
    /\ ReturnedParts("erj_generate_part_numbers")
    /\ \E j \in 1..Len(parts) :
           /\ j > Cardinality(ExactResistancePositions("E96"))
           /\ FCmp(parts[j].value, FromInt(2200000)) = 0
           /\ parts[j].mpn = ERJ_BASE_SERIES
                             \o <<"F", "2", "2", "0", "4", "V">>

\* C9: the length of the returned list is the sum over the sub-series of
\* |values| x |tolerances of the value| x |packaging| x |voltages or 1|:
\* |E96 values| + |E24 values| for the resistors, and for a capacitor
\* SeriesSpec the sum over the dielectrics of |voltage_ratings| x
\* |values in range| x |tolerance_options| x |packaging_options|; 3 values,
\* 2 tolerances and 1 packaging give 6 records.
C9_Cardinality ==
    /\ ReturnedParts("erj_generate_part_numbers") =>
         Len(parts) = Cardinality(ExactResistancePositions("E96"))
                      + Cardinality(ExactResistancePositions("E24"))
    /\ ReturnedParts("gcm_generate_part_numbers") =>
         LET specs  == arg.specs
             values == IF specs.value_range = <<>> THEN <<>>
                       ELSE generate_standard_values(
                              FromSci(specs.value_range[1].min_value.n,
                                      0 - specs.value_range[1].min_value.p),
                              FromSci(specs.value_range[1].max_value.n,
                                      0 - specs.value_range[1].max_value.p))
         IN  /\ Len(parts) = Len(specs.voltage_ratings) * Len(values)
                             * Len(specs.tolerance_options)
                             * Len(specs.packaging_options)
             /\ (/\ Len(values) = 3
                 /\ Len(specs.voltage_ratings) = 1
                 /\ Len(specs.tolerance_options) = 2
                 /\ Len(specs.packaging_options) = 1) => Len(parts) = 6

C9_Witness ==
    /\ ReturnedParts("gcm_generate_part_numbers")
    /\ Len(arg.specs.voltage_ratings) = 1
    /\ Len(arg.specs.tolerance_options) = 2
    /\ Len(arg.specs.packaging_options) = 1
    /\ Len(parts) = 6
    /\ parts[1].value # parts[3].value /\ parts[3].value # parts[5].value

IndexIn(seq, x) == CHOOSE i \in 1..Len(seq) : seq[i] = x

\* the position of a record in the loops over voltage, tolerance and
\* packaging, read back from the components of its MPN
GenerationRank(part, specs) ==
    <<IndexIn(specs.voltage_ratings,
              SubSeq(part.mpn, Len(specs.base_series) + 3,
                     Len(specs.base_series) + 4)),
      IndexIn(specs.tolerance_options, part.mpn[Len(part.mpn) - 4]),
      IndexIn(specs.packaging_options, part.mpn[Len(part.mpn)])>>

LexLess(a, b) ==
    \/ a[1] < b[1]
    \/ a[1] = b[1] /\ a[2] < b[2]
    \/ a[1] = b[1] /\ a[2] = b[2] /\ a[3] < b[3]

\* C10: the list the capacitor generate_part_numbers returns is ordered
\* non-decreasingly by (dielectric, value); records with equal key keep their
\* generation order: voltage rating, then tolerance, then packaging.
C10_SortedStable ==
    ReturnedParts("gcm_generate_part_numbers") =>
        \A j \in 1..(Len(parts) - 1) :
            LET a == parts[j]
                b == parts[j + 1]
                d == StrCmp(a.dielectric, b.dielectric)
            IN  /\ d < 0 \/ (d = 0 /\ FLe(a.value, b.value))
                /\ (d = 0 /\ FCmp(a.value, b.value) = 0) =>
                       LexLess(GenerationRank(a, arg.specs),
                               GenerationRank(b, arg.specs))

C10_Witness ==
    /\ ReturnedParts("gcm_generate_part_numbers")
    /\ \E j \in 1..(Len(parts) - 1) :
           /\ parts[j].value = parts[j + 1].value
           /\ GenerationRank(parts[j], arg.specs)[1]
                  < GenerationRank(parts[j + 1], arg.specs)[1]
    /\ \E j \in 1..(Len(parts) - 1) :
           FLt(parts[j].value, parts[j + 1].value)

\* the tolerance code an MPN of the resistor family carries
ErjMpnTolerance(part) == part.mpn[Len(ERJ_BASE_SERIES) + 1]

\* C11: the resistor catalog is in generation order: the records of the E96
\* traversal precede those of the E24 traversal, and within a series the
\* records follow the order in which generate_resistance_values yields the
\* values (one tolerance code and one packaging per value); nothing is
\* reordered afterwards.
C11_GenerationOrder ==
    ReturnedParts("erj_generate_part_numbers") =>
        LET e96 == generate_resistance_values(E96_BASE_VALUES)
            e24 == generate_resistance_values(E24_BASE_VALUES)
        IN  /\ Len(parts) = Len(e96) + Len(e24)
            /\ \A j \in 1..Len(e96) :
                   /\ parts[j].value = e96[j]
                   /\ ErjMpnTolerance(parts[j]) = "F"
            /\ \A j \in 1..Len(e24) :
                   /\ parts[Len(e96) + j].value = e24[j]
                   /\ ErjMpnTolerance(parts[Len(e96) + j])
                          = IF FGt(e24[j], FromInt(1000000)) THEN "F"
                            ELSE "J"

C11_Witness ==
    /\ ReturnedParts("erj_generate_part_numbers")
    /\ \E j \in 1..(Len(parts) - 1) :
           /\ ErjMpnTolerance(parts[j]) = "F"
           /\ ErjMpnTolerance(parts[j + 1]) = "J"
           /\ FCmp(parts[j + 1].value, FromInt(10)) = 0
           /\ FLt(parts[j + 1].value, parts[j].value)

\* repeated calls of generate_part_numbers and re-created generators
InitRun == InitCat \/ InitGen

NextRun == NextCat \/ NextGen

SpecRun == InitRun /\ [][NextRun]_vars

ErjMpnCode(part) ==
    SubSeq(part.mpn, Len(ERJ_BASE_SERIES) + 2,
           Len(part.mpn) - 1)

GcmMpnCode(part) ==
    SubSeq(part.mpn,
           Len(part.series) + Len(GCM_DIELECTRIC_MAP(part.dielectric)) + 3,
           Len(part.mpn) - 5)

\* C13: within one family, two generated nominal values that differ
\* (resistor: the E96 and E24 values in [10, 2,200,000]; capacitor: the E12
\* values of the catalog range) are encoded with different code strings
C13_CodeUniqueness ==
    /\ ReturnedParts("erj_generate_part_numbers") =>
           \A i, j \in 1..Len(parts) :
               FCmp(parts[i].value, parts[j].value) # 0 =>
                   ErjMpnCode(parts[i]) # ErjMpnCode(parts[j])
    /\ ReturnedParts("gcm_generate_part_numbers") =>
           \A i, j \in 1..Len(parts) :
               FCmp(parts[i].value, parts[j].value) # 0 =>
                   GcmMpnCode(parts[i]) # GcmMpnCode(parts[j])

\* the GCM155 catalog holds 220 pF and 2.2 nF, whose codes share their
\* first three digits
C13_Witness ==
    /\ ReturnedParts("gcm_generate_part_numbers")
    /\ arg.specs = GCM155
    /\ \E i, j \in 1..Len(parts) :
           /\ FLt(parts[i].value, parts[j].value)
           /\ GcmMpnCode(parts[i]) = <<"2", "2", "1">>
           /\ GcmMpnCode(parts[j]) = <<"2", "2", "0", "1">>

\* C14: every resistance accepted by generate_resistance_code (10 to
\* 2,200,000, not only the nominal values) gets a code of exactly 4
\* characters
C14_FourCharacters ==
    (ReturnedFrom("generate_resistance_code") /\ ~result.raised) =>
        Len(result.code) = 4

\* C15: a capacitance accepted by generate_capacitance_code whose picofarad
\* value is 10 or more gets a code of exactly three decimal digits
C15_ThreeDigits ==
    (/\ ReturnedFrom("generate_capacitance_code")
     /\ ~result.raised
     /\ FGe(PfValue(FromSci(arg.n, 0 - arg.p)), FromInt(10))) =>
        (Len(result.code) = 3 /\ AllDigits(result.code))

(***************************************************************************)
(* Calls of get_characteristic_code with literals n * 10^-p farads around  *)
(* the threshold and with the E12 nominal values, next to the catalogs.    *)
(***************************************************************************)
CharInputs ==
    {[fn |-> "get_characteristic_code", n |-> 1000 + d, p |-> 11] :
        d \in (0 - Window)..Window}
    \cup {[fn |-> "get_characteristic_code",
           n |-> e12_multipliers[i] * Pow10(k), p |-> 13] :
            i \in 1..12, k \in 0..MaxDecade}

InitChar ==
    /\ pc = "call"
    /\ arg \in CharInputs \cup CatInputs
    /\ result = NoResult
    /\ gen = NoGen
    /\ yielded = <<>>
    /\ parts = <<>>
    /\ history = <<>>
    /\ files = <<>>
    /\ stdout = <<>>

CallGetCharacteristicCode ==
    /\ pc = "call"
    /\ arg.fn = "get_characteristic_code"
    /\ result' = Returned(get_characteristic_code(FromSci(arg.n, 0 - arg.p)))
    /\ pc' = "returned"
    /\ UNCHANGED <<arg, gen, yielded, parts, history, io>>

NextChar == CallGetCharacteristicCode \/ NextCat

SpecChar == InitChar /\ [][NextChar]_vars

CharacteristicOf(above) ==
    IF above THEN <<"A", "5", "5">> ELSE <<"A", "3", "7">>

\* C16: get_characteristic_code returns A55 exactly for the capacitances of
\* 0.01 uF = 1e-8 F and more, the threshold included, and A37 for all
\* others; in every capacitor record the MPN ends with the tolerance code,
\* the characteristic code of the record's value and the packaging code
C16_Characteristic ==
    /\ ReturnedFrom("get_characteristic_code") =>
           result.code = CharacteristicOf(DecCmp(arg.n, arg.p, 1, 8) >= 0)
    /\ ReturnedParts("gcm_generate_part_numbers") =>
           \A j \in 1..Len(parts) :
               /\ SubSeq(parts[j].mpn, Len(parts[j].mpn) - 3,
                         Len(parts[j].mpn) - 1)
                    = CharacteristicOf(FGe(parts[j].value, FromSci(1, -8)))
               /\ format_tolerance(parts[j].mpn[Len(parts[j].mpn) - 4])
                    = parts[j].tolerance
               /\ \E k \in 1..Len(arg.specs.packaging_options) :
                      parts[j].mpn[Len(parts[j].mpn)]
                          = arg.specs.packaging_options[k]

\* the call with the threshold 1e-8 F itself
C16_Witness ==
    /\ ReturnedFrom("get_characteristic_code")
    /\ DecCmp(arg.n, arg.p, 1, 8) = 0
    /\ result.code = <<"A", "5", "5">>

(***************************************************************************)
(* gcm_mpn_generator.py: parse_capacitance.  float() is modelled on the    *)
(* numerals digits[.digits][e[+-]digits]; any other token raises           *)
(* ValueError.                                                             *)
(***************************************************************************)
UpperChars ==
    <<"A", "B", "C", "D", "E", "F", "G", "H", "I", "J", "K", "L", "M",
      "N", "O", "P", "Q", "R", "S", "T", "U", "V", "W", "X", "Y", "Z">>

LowerChars ==
    <<"a", "b", "c", "d", "e", "f", "g", "h", "i", "j", "k", "l", "m",
      "n", "o", "p", "q", "r", "s", "t", "u", "v", "w", "x", "y", "z">>

\* str.lower(): the micro sign and the digits have no other lower case
LowerChar(c) ==
    IF \E i \in 1..Len(UpperChars) : UpperChars[i] = c
    THEN LowerChars[CHOOSE i \in 1..Len(UpperChars) : UpperChars[i] = c]
    ELSE c

Lower(str) == [i \in 1..Len(str) |-> LowerChar(str[i])]

\* str.strip()
RECURSIVE Strip(_)
Strip(str) ==
    IF str = <<>> THEN str
    ELSE IF str[1] = " " THEN Strip(Tail(str))
    ELSE IF str[Len(str)] = " " THEN Strip(SubSeq(str, 1, Len(str) - 1))
    ELSE str

\* sub in str
Contains(str, sub) ==
    \E i \in 1..(Len(str) - Len(sub) + 1) :
        SubSeq(str, i, i + Len(sub) - 1) = sub

\* the index of the first c in str, 0 if there is none
IndexOf(str, c) ==
    IF \E i \in 1..Len(str) : str[i] = c
    THEN CHOOSE i \in 1..Len(str) :
             str[i] = c /\ \A j \in 1..(i - 1) : str[j] # c
    ELSE 0

\* str.split()[0] of a stripped, non-empty string
FirstTokenTo(str, space) ==
    IF space = 0 THEN str ELSE SubSeq(str, 1, space - 1)

FirstToken(str) == FirstTokenTo(str, IndexOf(str, " "))

StrToInt(digits) == BToInt(BFromStr(digits))

FloatRaised == [raised |-> TRUE, value |-> FZero]

PyFloatNumeral(digits, p, ex) ==
    IF digits = <<>> \/ ~AllDigits(digits) THEN FloatRaised
    ELSE [raised |-> FALSE, value |-> FromSci(StrToInt(digits), ex - p)]

PyFloatMantissa(mant, dot, ex) ==
    IF dot = 0 THEN PyFloatNumeral(mant, 0, ex)
    ELSE PyFloatNumeral(SubSeq(mant, 1, dot - 1)
                        \o SubSeq(mant, dot + 1, Len(mant)),
                        Len(mant) - dot, ex)

PyFloatExponent(mant, sign, digits) ==
    IF digits = <<>> \/ ~AllDigits(digits) THEN FloatRaised
    ELSE PyFloatMantissa(mant, IndexOf(mant, "."), sign * StrToInt(digits))

PyFloatSigned(mant, expo) ==
    IF expo # <<>> /\ expo[1] = "-" THEN PyFloatExponent(mant, -1, Tail(expo))
    ELSE IF expo # <<>> /\ expo[1] = "+"
    THEN PyFloatExponent(mant, 1, Tail(expo))
    ELSE PyFloatExponent(mant, 1, expo)

PyFloatAt(token, e_at) ==
    IF e_at = 0 THEN PyFloatMantissa(token, IndexOf(token, "."), 0)
    ELSE PyFloatSigned(SubSeq(token, 1, e_at - 1),
                       SubSeq(token, e_at + 1, Len(token)))

PyFloat(token) == PyFloatAt(token, IndexOf(token, "e"))

ParseMultiplier(value_str) ==
    IF Contains(value_str, <<"u", "f">>) \/ Contains(value_str, <<"µ", "f">>)
    THEN FromSci(1, -6)
    ELSE IF Contains(value_str, <<"n", "f">>) THEN FromSci(1, -9)
    ELSE FromSci(1, -12)

ParseTimes(num, multiplier) ==
    IF num.raised THEN FloatRaised
    ELSE [raised |-> FALSE, value |-> FMul(num.value, multiplier)]

ParseLowered(value_str) ==
    ParseTimes(PyFloat(FirstToken(value_str)), ParseMultiplier(value_str))

parse_capacitance(value_str) == ParseLowered(Lower(Strip(value_str)))

(***************************************************************************)
(* Calls of the formatting functions.  A resistance is a literal in        *)
(* hundredths of an ohm; a capacitance is a literal n * 10^-p farads or    *)
(* value j of the GCM155 catalog as generate_standard_values yields it.    *)
(* A formatted capacitance is then parsed and the parsed value formatted   *)
(* again.                                                                  *)
(***************************************************************************)
GcmCatalogValues ==
    generate_standard_values(FromSci(220, -12), FromSci(1, -7))

FmtInputs ==
    {[fn |-> "format_resistance_value", n |-> c, p |-> 2, j |-> 0] :
        c \in {x \in ResInputs \cup {150000000} :
                  1000 <= x /\ x <= 220000000}}
    \cup {[fn |-> "format_capacitance", n |-> x.n, p |-> x.p, j |-> 0] :
            x \in {y \in CapInputs : DecCmp(y.n, y.p, 1, 12) >= 0}}
    \cup {[fn |-> "format_capacitance", n |-> 1000 + d, p |-> 9, j |-> 0] :
            d \in (0 - Window)..Window}
    \cup {[fn |-> "format_capacitance", n |-> 0, p |-> 0, j |-> j] :
            j \in 1..Len(GcmCatalogValues)}

ArgCapacitance(a) ==
    IF a.j > 0 THEN GcmCatalogValues[a.j] ELSE FromSci(a.n, 0 - a.p)

InitFmt ==
    /\ pc = "call"
    /\ arg \in FmtInputs
    /\ result = NoResult
    /\ gen = NoGen
    /\ yielded = <<>>
    /\ parts = <<>>
    /\ history = <<>>
    /\ files = <<>>
    /\ stdout = <<>>

CallFormatResistanceValue ==
    /\ pc = "call"
    /\ arg.fn = "format_resistance_value"
    /\ result' = Returned(format_resistance_value(FromSci(arg.n, 0 - arg.p)))
    /\ pc' = "returned"
    /\ UNCHANGED <<arg, gen, yielded, parts, history, io>>

\* history keeps the argument and the value of every call
FormatCapacitanceOf(capacitance, str) ==
    /\ result' = Returned(str)
    /\ history' = Append(history, [value |-> capacitance, str |-> str])

CallFormatCapacitance ==
    /\ pc = "call"
    /\ arg.fn = "format_capacitance"
    /\ FormatCapacitanceOf(ArgCapacitance(arg),
                           format_capacitance(ArgCapacitance(arg)))
    /\ pc' = "returned"
    /\ UNCHANGED <<arg, gen, yielded, parts, io>>

ParseCapacitanceOf(str, num) ==
    /\ result' = [raised |-> num.raised, code |-> str]
    /\ history' = Append(history, [value |-> num.value, str |-> str])

CallParseCapacitance ==
    /\ pc = "returned"
    /\ arg.fn = "format_capacitance"
    /\ ParseCapacitanceOf(result.code, parse_capacitance(result.code))
    /\ pc' = "parsed"
    /\ UNCHANGED <<arg, gen, yielded, parts, io>>

CallFormatCapacitanceAgain ==
    /\ pc = "parsed"
    /\ ~result.raised
    /\ FormatCapacitanceOf(history[Len(history)].value,
                           format_capacitance(history[Len(history)].value))
    /\ pc' = "reformatted"
    /\ UNCHANGED <<arg, gen, yielded, parts, io>>

NextFmt ==
    \/ CallFormatResistanceValue
    \/ CallFormatCapacitance
    \/ CallParseCapacitance
    \/ CallFormatCapacitanceAgain

SpecFmt == InitFmt /\ [][NextFmt]_vars

\* the unit the magnitude of the argument calls for; a literal is compared
\* in exact decimal arithmetic, a catalog value as the float it is
ResistancePrefix ==
    IF arg.n >= 100000000 THEN <<"M", "Ω">>
    ELSE IF arg.n >= 100000 THEN <<"k", "Ω">>
    ELSE <<"Ω">>

AtLeast(a, p) ==
    IF a.j > 0 THEN FGe(GcmCatalogValues[a.j], FromSci(1, 0 - p))
    ELSE DecCmp(a.n, a.p, 1, p) >= 0

CapacitancePrefix ==
    IF AtLeast(arg, 6) THEN <<"µ", "F">>
    ELSE IF AtLeast(arg, 9) THEN <<"n", "F">>
    ELSE <<"p", "F">>

\* the number displayed in front of the unit
Displayed(str) == PyFloat(FirstToken(str)).value

MantissaInRange(str) ==
    FGe(Displayed(str), FromInt(1)) /\ FLt(Displayed(str), FromInt(1000))

\* no exponent, and no zero or point at the end of a fraction
Trimmed(token) ==
    /\ IndexOf(token, "e") = 0
    /\ IndexOf(token, ".") # 0 => token[Len(token)] \notin {"0", "."}

UnitOf(str) == SubSeq(str, IndexOf(str, " ") + 1, Len(str))

\* C17: formatting picks the largest prefix that keeps the displayed
\* magnitude at 1 or more (M from 1,000,000 ohm, k from 1,000 ohm; micro
\* from 1e-6 F, nano from 1e-9 F, else pico), and for every valid
\* resistance and every capacitance of 1 pF or more the displayed mantissa
\* lies in [1, 1000) with trailing zeros trimmed; 1,500,000 -> "1.5 MΩ",
\* 100 pF -> "100 pF"
C17_Formatting ==
    /\ ReturnedFrom("format_resistance_value") =>
          /\ UnitOf(result.code) = ResistancePrefix
          /\ MantissaInRange(result.code)
          /\ Trimmed(FirstToken(result.code))
          /\ arg.n = 150000000 =>
                 result.code = <<"1", ".", "5", " ", "M", "Ω">>
    /\ ReturnedFrom("format_capacitance") =>
          /\ UnitOf(result.code) = CapacitancePrefix
          /\ MantissaInRange(result.code)
          /\ Trimmed(FirstToken(result.code))
          /\ (arg.n = 100 /\ arg.p = 12) =>
                 result.code = <<"1", "0", "0", " ", "p", "F">>

\* C18: a string that format_capacitance produces for a value of the
\* capacitor catalog is parsed by parse_capacitance to a capacitance equal
\* to that value, and formatting the parsed capacitance gives the string
\* again
C18_RoundTrip ==
    /\ (pc = "parsed" /\ arg.j > 0) =>
          /\ ~result.raised
          /\ FCmp(history[2].value, history[1].value) = 0
    /\ (pc = "reformatted" /\ arg.j > 0) =>
          history[3].str = history[1].str

(***************************************************************************)
(* The entry points.  erj_6en_mpn_generator.py run as a program generates  *)
(* the list, writes the CSV file and has the symbol file generated;        *)
(* gcm_mpn_generator.py run as a program does the same for every series of *)
(* SERIES_SPECS through generate_files_for_series, which can also be       *)
(* called directly with any series name.  SERIES_SPECS is the              *)
(* configuration table, a sequence of (name, SeriesSpec) in insertion      *)
(* order.  files is the directory: a sequence of (name, rows); stdout is   *)
(* the sequence of printed messages; history has one entry for every       *)
(* series the loop of the program is done with.                            *)
(* kicad_*_symbol_generator is not part of the sources: its call either    *)
(* succeeds or raises one of the three exceptions that are handled.        *)
(***************************************************************************)
ERJ_CSV ==
    <<"E", "R", "J", "6", "E", "N", "_", "p", "a", "r", "t", "_", "n", "u",
      "m", "b", "e", "r", "s", ".", "c", "s", "v">>

ERJ_SYMBOL ==
    <<"R", "E", "S", "I", "S", "T", "O", "R", "S", "_", "E", "R", "J", "6",
      "E", "N", "_", "D", "A", "T", "A", "_", "B", "A", "S", "E", ".", "k",
      "i", "c", "a", "d", "_", "s", "y", "m">>

ERJ_HEADERS ==
    <<"Symbol Name", "Reference", "Value", "Footprint", "Datasheet",
      "Description", "Manufacturer", "MPN", "Tolerance", "Voltage Rating",
      "Case Code - in", "Case Code - mm">>

GCM_HEADERS ==
    <<"Symbol Name", "Reference", "Value", "Footprint", "Datasheet",
      "Description", "Manufacturer", "MPN", "Dielectric", "Tolerance",
      "Voltage Rating", "Case Code - in", "Case Code - mm", "Series",
      "Trustedparts Search">>

NotHyphen(c) == c # "-"

\* series_name.replace("-", "")
SeriesCode(series_name) == SelectSeq(series_name, NotHyphen)

CsvFilename(series_name) ==
    SeriesCode(series_name)
    \o <<"_", "p", "a", "r", "t", "_", "n", "u", "m", "b", "e", "r", "s",
         ".", "c", "s", "v">>

SymbolFilename(series_name) ==
    <<"C", "A", "P", "A", "C", "I", "T", "O", "R", "S", "_">>
    \o SeriesCode(series_name)
    \o <<"_", "D", "A", "T", "A", "_", "B", "A", "S", "E", ".", "k", "i",
         "c", "a", "d", "_", "s", "y", "m">>

\* series_name in SERIES_SPECS, SERIES_SPECS[series_name]
SeriesKnown(series_name, table) ==
    \E i \in 1..Len(table) : table[i].name = series_name

SeriesLookup(series_name, table) ==
    table[CHOOSE i \in 1..Len(table) : table[i].name = series_name].specs

\* the directory
HasFile(fs, name) == \E i \in 1..Len(fs) : fs[i].name = name

FileRows(fs, name) ==
    fs[CHOOSE i \in 1..Len(fs) : fs[i].name = name].rows

FileStore(fs, name, rows) ==
    IF HasFile(fs, name)
    THEN [i \in 1..Len(fs) |->
             IF fs[i].name = name THEN [name |-> name, rows |-> rows]
             ELSE fs[i]]
    ELSE Append(fs, [name |-> name, rows |-> rows])

\* the description and the search link of a record, which create_part_info
\* makes of the value, the tolerance and the other attributes of the record
ErjDescription(part_info) ==
    <<"RES SMD ", format_resistance_value(part_info.value), " ",
      part_info.tolerance, " 0805 ", part_info.voltage_rating>>

GcmDescription(part) ==
    <<"CAP SMD ", format_capacitance(part.value), " ", part.dielectric, " ",
      part.tolerance, " ", part.case_code_in, " ", part.voltage_rating>>

GcmTrustedpartsLink(part) ==
    <<"https://www.trustedparts.com/en/search/", part.mpn>>

\* the rows writer.writerow is given
ErjRow(part_info) ==
    <<part_info.symbol_name, part_info.reference,
      format_resistance_value(part_info.value), part_info.footprint,
      part_info.datasheet, ErjDescription(part_info),
      part_info.manufacturer, part_info.mpn, part_info.tolerance,
      part_info.voltage_rating, part_info.case_code_in,
      part_info.case_code_mm>>

GcmRow(part) ==
    <<part.symbol_name, part.reference, format_capacitance(part.value),
      part.footprint, part.datasheet, GcmDescription(part),
      part.manufacturer, part.mpn, part.dielectric, part.tolerance,
      part.voltage_rating, part.case_code_in, part.case_code_mm,
      part.series, GcmTrustedpartsLink(part)>>

\* configuration tables: the table of the program, and tables with a
\* series of three values and with a series whose range reaches above the
\* 1e-2 F that generate_capacitance_code accepts
SmallSeries ==
    SeriesSpec(<< <<"1", "H">> >>, <<"K">>, <<"D", "J">>,
               Range(220, 12, 33, 11))

WideSeries ==
    SeriesSpec(<< <<"1", "H">> >>, <<"K">>, <<"D">>, Range(82, 4, 12, 3))

Name155 == <<"G", "C", "M", "1", "5", "5">>
Name188 == <<"G", "C", "M", "-", "1", "8", "8">>
Name21 == <<"G", "C", "M", "2", "1">>

Tables ==
    { << [name |-> Name155, specs |-> GCM155] >>,
      << [name |-> Name188, specs |-> SmallSeries],
         [name |-> Name21, specs |-> WideSeries] >>,
      << [name |-> Name21, specs |-> WideSeries],
         [name |-> Name188, specs |-> SmallSeries] >>,
      << [name |-> Name21, specs |-> WideSeries],
         [name |-> Name155, specs |-> GCM155],
         [name |-> Name188, specs |-> SmallSeries] >> }

MainInputs ==
    {[fn |-> "erj_main", existing |-> e] : e \in BOOLEAN}
    \cup {[fn |-> "gcm_main", SERIES_SPECS |-> t, existing |-> e] :
            t \in Tables, e \in BOOLEAN}
    \cup {[fn |-> "generate_files_for_series", series_name |-> n,
           SERIES_SPECS |-> t, existing |-> e] :
            n \in {Name155, Name188, Name21}, t \in Tables, e \in BOOLEAN}

\* the CSV file of an earlier run may be present
FirstCsv(a) ==
    IF a.fn = "erj_main" THEN ERJ_CSV
    ELSE IF a.fn = "gcm_main" THEN CsvFilename(a.SERIES_SPECS[1].name)
    ELSE CsvFilename(a.series_name)

InitialFiles(a) ==
    IF a.existing
    THEN << [name |-> FirstCsv(a), rows |-> << <<"earlier run">> >>] >>
    ELSE <<>>

InitMain ==
    /\ arg \in MainInputs
    /\ pc = (IF arg.fn = "erj_main" THEN "generate"
             ELSE IF arg.fn = "gcm_main" THEN "main" ELSE "entry")
    /\ result = NoResult
    /\ gen = NoGen
    /\ yielded = <<>>
    /\ parts = <<>>
    /\ history = <<>>
    /\ files = InitialFiles(arg)
    /\ stdout = <<>>

\* the series at hand, and the names of its files
CurrentSeries ==
    IF arg.fn = "gcm_main" THEN arg.SERIES_SPECS[Len(history) + 1].name
    ELSE arg.series_name

CurrentCsv ==
    IF arg.fn = "erj_main" THEN ERJ_CSV ELSE CsvFilename(CurrentSeries)

CurrentSymbol ==
    IF arg.fn = "erj_main" THEN ERJ_SYMBOL ELSE SymbolFilename(CurrentSeries)

\* for current_series in SERIES_SPECS
GcmMainLoop ==
    /\ pc = "main"
    /\ pc' = IF Len(history) < Len(arg.SERIES_SPECS) THEN "entry" ELSE "exit"
    /\ UNCHANGED <<arg, result, gen, yielded, parts, history, io>>

\* generate_files_for_series up to the file names
FilesEntry ==
    /\ pc = "entry"
    /\ IF SeriesKnown(CurrentSeries, arg.SERIES_SPECS)
       THEN pc' = "generate" /\ UNCHANGED result
       ELSE /\ pc' = "ValueError"
            /\ result' = [raised |-> TRUE,
                          code |-> <<"Unknown series: ">> \o CurrentSeries]
    /\ parts' = <<>>
    /\ UNCHANGED <<arg, gen, yielded, history, io>>

\* the list is bound when generate_part_numbers has returned
\* variant: the file is opened and the header written before the records
\* are generated
GeneratedStreaming(o) ==
    IF o.raised
    THEN /\ pc' = "ValueError"
         /\ result' = [raised |-> TRUE, code |-> <<"out of range">>]
         /\ parts' = <<>>
         /\ files' = FileStore(files, CurrentCsv, <<GCM_HEADERS>>)
    ELSE /\ pc' = "open"
         /\ parts' = o.parts
         /\ UNCHANGED <<result, files>>

Generated(o) ==
    IF o.raised
    THEN /\ pc' = "ValueError"
         /\ result' = [raised |-> TRUE, code |-> <<"out of range">>]
         /\ parts' = <<>>
         /\ UNCHANGED files
    ELSE /\ pc' = "open"
         /\ parts' = o.parts
         /\ UNCHANGED <<result, files>>

FilesGenerate ==
    /\ pc = "generate"
    /\ arg.fn # "erj_main"
    /\ Generated(gcm_generate_part_numbers(
                     SeriesLookup(CurrentSeries, arg.SERIES_SPECS)))
    /\ UNCHANGED <<arg, gen, yielded, history, stdout>>

ErjMainGenerate ==
    /\ pc = "generate"
    /\ arg.fn = "erj_main"
    /\ Generated(erj_generate_part_numbers)
    /\ UNCHANGED <<arg, gen, yielded, history, stdout>>

\* write_to_csv: open(..., 'w') truncates or creates the file
CsvOpen ==
    /\ pc = "open"
    /\ files' = FileStore(files, CurrentCsv, <<>>)
    /\ pc' = "header"
    /\ UNCHANGED <<arg, result, gen, yielded, parts, history, stdout>>

CsvHeader ==
    /\ pc = "header"
    /\ files' = FileStore(files, CurrentCsv,
                          <<IF arg.fn = "erj_main" THEN ERJ_HEADERS
                            ELSE GCM_HEADERS>>)
    /\ pc' = "rows"
    /\ UNCHANGED <<arg, result, gen, yielded, parts, history, stdout>>

\* one pass of the loop over the records
CsvRowOf(rows, part) ==
    files' = FileStore(files, CurrentCsv,
                       Append(rows, IF arg.fn = "erj_main" THEN ErjRow(part)
                                    ELSE GcmRow(part)))

CsvRow ==
    /\ pc = "rows"
    /\ Len(FileRows(files, CurrentCsv)) <= Len(parts)
    /\ CsvRowOf(FileRows(files, CurrentCsv),
                parts[Len(FileRows(files, CurrentCsv))])
    /\ UNCHANGED <<pc, arg, result, gen, yielded, parts, history, stdout>>

\* the file is closed, write_to_csv returns and the count is printed
CsvClose ==
    /\ pc = "rows"
    /\ Len(FileRows(files, CurrentCsv)) > Len(parts)
    /\ stdout' = Append(stdout, [text |-> "Generated", count |-> Len(parts),
                                 file |-> CurrentCsv])
    /\ pc' = "symbol"
    /\ UNCHANGED <<arg, result, gen, yielded, parts, history, files>>

\* generate_kicad_symbol and the handlers around its call
SymbolOutcomes ==
    { [error |-> "none", written |-> TRUE],
      [error |-> "FileNotFoundError", written |-> FALSE],
      [error |-> "csv.Error", written |-> FALSE],
      [error |-> "IOError", written |-> FALSE],
      [error |-> "IOError", written |-> TRUE] }

SymbolOutcome(o) ==
    /\ files' = IF o.written
                THEN FileStore(files, CurrentSymbol, <<o.error>>)
                ELSE files
    /\ stdout' = Append(stdout, [text |-> o.error, count |-> 0,
                                 file |-> CurrentSymbol])

SymbolGenerate ==
    /\ pc = "symbol"
    /\ \E o \in SymbolOutcomes : SymbolOutcome(o)
    /\ pc' = IF arg.fn = "erj_main" THEN "exit" ELSE "return"
    /\ UNCHANGED <<arg, result, gen, yielded, parts, history>>

\* generate_files_for_series returns to the loop or to its caller
FilesReturn ==
    /\ pc = "return"
    /\ IF arg.fn = "gcm_main"
       THEN pc' = "main" /\ history' = Append(history, "done")
       ELSE pc' = "returned" /\ UNCHANGED history
    /\ UNCHANGED <<arg, result, gen, yielded, parts, io>>

\* variant: the first error ends the loop
MainCatchAbort ==
    /\ pc = "ValueError"
    /\ arg.fn = "gcm_main"
    /\ stdout' = Append(stdout, [text |-> "Invalid series specification",
                                 count |-> 0, file |-> CurrentSeries])
    /\ history' = Append(history, "ValueError")
    /\ pc' = "exit"
    /\ UNCHANGED <<arg, result, gen, yielded, parts, files>>

\* except ValueError in the loop of the program
MainCatch ==
    /\ pc = "ValueError"
    /\ arg.fn = "gcm_main"
    /\ stdout' = Append(stdout, [text |-> "Invalid series specification",
                                 count |-> 0, file |-> CurrentSeries])
    /\ history' = Append(history, "ValueError")
    /\ pc' = "main"
    /\ UNCHANGED <<arg, result, gen, yielded, parts, files>>

NextMain ==
    \/ GcmMainLoop
    \/ FilesEntry
    \/ FilesGenerate
    \/ ErjMainGenerate
    \/ CsvOpen
    \/ CsvHeader
    \/ CsvRow
    \/ CsvClose
    \/ SymbolGenerate
    \/ FilesReturn
    \/ MainCatch

SpecMain == InitMain /\ [][NextMain]_vars

\* the state of a file before the run
Untouched(name) ==
    /\ HasFile(files, name) = HasFile(InitialFiles(arg), name)
    /\ HasFile(files, name)
         => FileRows(files, name) = FileRows(InitialFiles(arg), name)

UnknownRequested ==
    /\ arg.fn = "generate_files_for_series"
    /\ ~SeriesKnown(arg.series_name, arg.SERIES_SPECS)

\* C19: a call of generate_files_for_series with a name that is not a key
\* of SERIES_SPECS goes from its entry to the ValueError "Unknown series"
\* and nowhere else, with no record generated, no file created or changed
\* and nothing printed; in the loop of the program a ValueError of a series
\* is caught and the loop ends only when every series has been taken.
C19_UnknownSeries ==
    /\ UnknownRequested
         => /\ pc \in {"entry", "ValueError"}
            /\ parts = <<>>
            /\ files = InitialFiles(arg)
            /\ stdout = <<>>
            /\ pc = "ValueError"
                 => /\ result.raised
                    /\ result.code = <<"Unknown series: ">> \o arg.series_name
    /\ (pc = "generate" /\ arg.fn # "erj_main")
         => SeriesKnown(CurrentSeries, arg.SERIES_SPECS)
    /\ (arg.fn = "gcm_main" /\ pc = "exit")
         => Len(history) = Len(arg.SERIES_SPECS)

C19_Witness ==
    /\ UnknownRequested
    /\ pc = "ValueError"
    /\ arg.existing
    /\ files # <<>>

\* the complete catalog of the series at hand, and the complete file
CurrentCatalog ==
    IF arg.fn = "erj_main" THEN erj_generate_part_numbers
    ELSE gcm_generate_part_numbers(
             SeriesLookup(CurrentSeries, arg.SERIES_SPECS))

ErjCsv(ps) == <<ERJ_HEADERS>> \o [i \in 1..Len(ps) |-> ErjRow(ps[i])]

GcmCsv(ps) == <<GCM_HEADERS>> \o [i \in 1..Len(ps) |-> GcmRow(ps[i])]

CompleteCsv(ps) == IF arg.fn = "erj_main" THEN ErjCsv(ps) ELSE GcmCsv(ps)

CsvRowFor(part) == IF arg.fn = "erj_main" THEN ErjRow(part) ELSE GcmRow(part)

RowsSoFar(rows, ps) ==
    /\ Len(rows) \in 1..(Len(ps) + 1)
    /\ rows[1] = (IF arg.fn = "erj_main" THEN ERJ_HEADERS ELSE GCM_HEADERS)
    /\ Len(rows) > 1 => rows[Len(rows)] = CsvRowFor(ps[Len(rows) - 1])

Writing == {"open", "header", "rows"}

SeriesCsv(i) == CsvFilename(arg.SERIES_SPECS[i].name)

IsCsv(name) ==
    /\ Len(name) >= 4
    /\ SubSeq(name, Len(name) - 3, Len(name)) = <<".", "c", "s", "v">>

\* the files of fs other than name are in gs as they are in fs
OthersKept(fs, gs, name) ==
    /\ Len(gs) >= Len(fs)
    /\ \A i \in 1..Len(fs) : fs[i].name # name => gs[i] = fs[i]

CsvKept(fs, gs) ==
    /\ Len(gs) >= Len(fs)
    /\ \A i \in 1..Len(fs) : IsCsv(fs[i].name) => gs[i] = fs[i]

\* when generation has raised, the CSV file of the series is as it was
\* before the run; while the rows are written the file is the header and
\* the rows of the first records
NoTruncatedState ==
    /\ (pc = "ValueError" /\ arg.fn # "erj_main") => Untouched(CurrentCsv)
    /\ pc = "rows" => RowsSoFar(FileRows(files, CurrentCsv), parts)
    /\ arg.fn = "gcm_main"
         => \A i \in 1..Len(history) :
              history[i] = "ValueError" => Untouched(SeriesCsv(i))

\* the file is opened with the complete catalog as the list, and only then
MaterializedFirst ==
    /\ pc = "generate"
         => /\ files' = files
            /\ pc' = "open"
                 => ~CurrentCatalog.raised /\ parts' = CurrentCatalog.parts
            /\ pc' = "ValueError" => CurrentCatalog.raised
    /\ pc' = "open" => pc = "generate"
    /\ pc \in Writing \cup {"symbol", "return"} => parts' = parts

\* write_to_csv returns with the header and one row for every record
WrittenComplete ==
    (pc = "rows" /\ pc' = "symbol")
      => /\ files' = files
         /\ FileRows(files, CurrentCsv) = CompleteCsv(parts)

\* a CSV file changes only while write_to_csv has it open
WrittenOnce ==
    /\ pc \in Writing => OthersKept(files, files', CurrentCsv)
    /\ pc = "symbol" => CsvKept(files, files')
    /\ pc \notin Writing \cup {"symbol"} => files' = files

\* C20: the CSV file is opened only when generate_part_numbers has
\* returned, with the complete catalog of the series as the list, which
\* does not change afterwards; when generation has raised, the CSV file of
\* the series is as it was before the run, then and ever after; a file
\* that write_to_csv has written is the header and one row for every
\* record of the list, in list order, and no later step changes it.
C20_NoTruncatedOutput ==
    /\ []NoTruncatedState
    /\ [][MaterializedFirst]_vars
    /\ [][WrittenComplete]_vars
    /\ [][WrittenOnce]_vars

C20_Witness ==
    /\ arg.fn = "gcm_main"
    /\ pc = "exit"
    /\ arg.existing
    /\ history = <<"ValueError", "done">>
    /\ FileRows(files, SeriesCsv(1)) = << <<"earlier run">> >>
    /\ Len(FileRows(files, SeriesCsv(2))) = 7

\* an MPN without its last component, and that component
MpnBody(part) == SubSeq(part.mpn, 1, Len(part.mpn) - 1)

MpnPackaging(part) == part.mpn[Len(part.mpn)]

\* two capacitor records of the same value, dielectric, tolerance and
\* voltage, and two resistor records of the same value and tolerance
GcmSameEncoding(a, b) ==
    /\ FCmp(a.value, b.value) = 0
    /\ a.dielectric = b.dielectric
    /\ a.tolerance = b.tolerance
    /\ a.voltage_rating = b.voltage_rating

ErjSameEncoding(a, b) ==
    FCmp(a.value, b.value) = 0 /\ a.tolerance = b.tolerance

GcmPackagingOnly(a, b) ==
    /\ MpnBody(a) = MpnBody(b)
    /\ a.symbol_name = <<"C", "_">> \o MpnBody(a) \o <<MpnPackaging(a)>>
    /\ b.symbol_name = <<"C", "_">> \o MpnBody(a) \o <<MpnPackaging(b)>>
    /\ GcmTrustedpartsLink(a)[1] = GcmTrustedpartsLink(b)[1]
    /\ GcmDescription(a) = GcmDescription(b)
    /\ a.footprint = b.footprint
    /\ a.case_code_in = b.case_code_in
    /\ a.case_code_mm = b.case_code_mm
    /\ a.datasheet = b.datasheet

ErjPackagingOnly(a, b) ==
    /\ MpnBody(a) = MpnBody(b)
    /\ a.symbol_name = <<"R", "_">> \o MpnBody(a) \o <<MpnPackaging(a)>>
    /\ b.symbol_name = <<"R", "_">> \o MpnBody(a) \o <<MpnPackaging(b)>>
    /\ ErjDescription(a) = ErjDescription(b)
    /\ a.footprint = b.footprint
    /\ a.voltage_rating = b.voltage_rating
    /\ a.case_code_in = b.case_code_in
    /\ a.case_code_mm = b.case_code_mm

\* C23: in a returned catalog the last component of every MPN is one of the
\* packaging options, and two records of the same value, tolerance, voltage
\* and dielectric whose packaging differs have the same MPN up to that last
\* component, symbol names and search links that are the prefix and the
\* MPN, and equal description, footprint, case codes and datasheet.
C23_PackagingOnly ==
    /\ ReturnedParts("gcm_generate_part_numbers") =>
         /\ \A j \in 1..Len(parts) :
              \E k \in 1..Len(arg.specs.packaging_options) :
                 MpnPackaging(parts[j]) = arg.specs.packaging_options[k]
         /\ \A i, j \in 1..Len(parts) :
              (/\ GcmSameEncoding(parts[i], parts[j])
               /\ MpnPackaging(parts[i]) # MpnPackaging(parts[j]))
                => GcmPackagingOnly(parts[i], parts[j])
    /\ ReturnedParts("erj_generate_part_numbers") =>
         /\ \A j \in 1..Len(parts) :
              \E k \in 1..Len(ERJ_PACKAGING_OPTIONS) :
                 MpnPackaging(parts[j]) = ERJ_PACKAGING_OPTIONS[k]
         /\ \A i, j \in 1..Len(parts) :
              (/\ ErjSameEncoding(parts[i], parts[j])
               /\ MpnPackaging(parts[i]) # MpnPackaging(parts[j]))
                => ErjPackagingOnly(parts[i], parts[j])

C23_Witness ==
    /\ ReturnedParts("gcm_generate_part_numbers")
    /\ arg.specs = GCM155
    /\ GcmSameEncoding(parts[1], parts[2])
    /\ MpnPackaging(parts[1]) = "D"
    /\ MpnPackaging(parts[2]) = "J"
    /\ MpnBody(parts[1]) = MpnBody(parts[2])

\* the decimal digit of the resistor R notation, for a picofarad value
RoundedDecimal(pf_value) ==
    PyRound(FMul(FSubInt(pf_value, FTrunc(pf_value)), FromInt(10)))

RoundedRNotation(pf_value) ==
    IntToStr(FTrunc(pf_value)) \o <<"R">> \o IntToStr(RoundedDecimal(pf_value))

\* C24: for a literal of at least 1 pF and less than 10 pF
\* generate_capacitance_code returns three characters: the whole-picofarad
\* digit, 'R', and the digit that is the fractional part times ten rounded
\* to the nearest integer, as generate_resistance_code computes it; 5 pF
\* gets "5R0".
C24_SubTenPicofarad ==
    (/\ ReturnedFrom("generate_capacitance_code")
     /\ DecCmp(arg.n, arg.p, 1, 12) >= 0
     /\ DecCmp(arg.n, arg.p, 10, 12) < 0) =>
        /\ ~result.raised
        /\ Len(result.code) = 3
        /\ result.code = RoundedRNotation(PfValue(FromSci(arg.n, 0 - arg.p)))
        /\ DecCmp(arg.n, arg.p, 5, 12) = 0 => result.code = <<"5", "R", "0">>

\* the tolerance a resistor record carries, in the MPN and as display
ErjCarries(part, code, display) ==
    ErjMpnTolerance(part) = code /\ part.tolerance = display

\* the records of the E96 traversal are the first n96 of the list
ToleranceByTraversal(n96) ==
    \A j \in 1..Len(parts) :
        IF j <= n96 THEN ErjCarries(parts[j], "F", <<"1", "%">>)
        ELSE IF FLe(parts[j].value, FromInt(1000000))
        THEN ErjCarries(parts[j], "J", <<"5", "%">>)
        ELSE ErjCarries(parts[j], "F", <<"1", "%">>)

\* C25: in the resistor catalog every record of the E96 traversal carries
\* F / '1%'; a record of the E24 traversal carries J / '5%' when its value
\* is at most 1,000,000, the value 1,000,000 included, and F / '1%' only
\* when its value is greater.
C25_OverrideStrict ==
    ReturnedParts("erj_generate_part_numbers") =>
        ToleranceByTraversal(Len(generate_resistance_values(E96_BASE_VALUES)))

C25_Witness ==
    /\ ReturnedParts("erj_generate_part_numbers")
    /\ \E i, j \in 1..Len(parts) :
           /\ i < j
           /\ FCmp(parts[i].value, FromInt(1000000)) = 0
           /\ ErjCarries(parts[i], "J", <<"5", "%">>)
           /\ FCmp(parts[j].value, FromInt(1100000)) = 0
           /\ ErjCarries(parts[j], "F", <<"1", "%">>)

\* C26: no two records of the list the resistor generate_part_numbers
\* returns have the same MPN or the same symbol name
C26_MpnUnique ==
    ReturnedParts("erj_generate_part_numbers") =>
        \A i, j \in 1..Len(parts) :
            i # j => /\ parts[i].mpn # parts[j].mpn
                     /\ parts[i].symbol_name # parts[j].symbol_name

(***************************************************************************)
(* Termination of the generators.  The loops that consume a generator      *)
(* (for capacitance in generate_standard_values(...), for value in         *)
(* generate_resistance_values(...)) call next() until it is exhausted, so  *)
(* next() is weakly fair.  A call of next() is enabled exactly when the    *)
(* generator is suspended, and every step of a suspended generator is a    *)
(* call of next(), so WF_vars(StandardValuesNext \/ ResistanceValuesNext)  *)
(* is the formula Resumption.                                              *)
(***************************************************************************)
Resumption ==
    \/ []<>(pc # "suspended")
    \/ []<><<pc = "suspended">>_vars

SpecGenLive == InitGen /\ [][NextGen]_vars /\ Resumption

\* the decade anchor of round k: 1e-12 multiplied k times by 10
RECURSIVE DecadeAt(_)
DecadeAt(k) ==
    IF k = 0 THEN FromSci(1, -12) ELSE FMul(DecadeAt(k - 1), FromInt(10))

StandardStops(max_value) ==
    /\ gen.pos.decade = DecadeAt(gen.pos.k)
    /\ \A j \in 1..Len(yielded) : FLe(DecadeAt(yielded[j].k), max_value)
    /\ Len(yielded) <= Len(e12_multipliers) * (gen.pos.k + 1)
    /\ pc = "exhausted" =>
         /\ gen.pos.i = 1
         /\ FGt(gen.pos.decade, max_value)
         /\ gen.pos.k > 0 => FLe(DecadeAt(gen.pos.k - 1), max_value)

ResistanceStops ==
    /\ \A j \in 1..Len(yielded) :
          /\ FLe(yielded[j].value, MAX_RESISTANCE)
          /\ FGe(yielded[j].value, MIN_RESISTANCE)
    /\ \A i, j \in 1..Len(yielded) :
          (i < j /\ yielded[i].i = yielded[j].i) =>
              FLt(yielded[i].value, yielded[j].value)
    /\ pc = "exhausted" => gen.pos.b > Len(BaseTable(gen.base_values))

GeneratorsStop ==
    /\ gen.fn = "generate_standard_values" =>
         StandardStops(FromSci(gen.max_value.n, 0 - gen.max_value.p))
    /\ gen.fn = "generate_resistance_values" => ResistanceStops

\* C27: a generator that is resumed again and again is exhausted after
\* finitely many values.  generate_standard_values runs a round only while
\* the decade anchor, 1e-12 multiplied by 10 each round, is at most
\* max_value, and ends at the first anchor above it;
\* generate_resistance_values yields only values of at most 2,200,000,
\* strictly increasing for each base entry, and ends after the last entry.
C27_Termination ==
    /\ []GeneratorsStop
    /\ (pc = "suspended") ~> (pc = "exhausted")

C27_Witness ==
    /\ Exhausted("generate_standard_values")
    /\ gen.min_value = [n |-> 220, p |-> 12]
    /\ gen.max_value = [n |-> 1, p |-> 7]
    /\ Len(yielded) = 33
    /\ gen.pos.k = 6

(***************************************************************************)
(* kicad_connector_footprint_generator: the numbers of a footprint.  A     *)
(* Python number is [int, neg, f]: an int or a float, its sign (a float    *)
(* zero keeps one) and its magnitude f.  x + y and x - y are correctly     *)
(* rounded; str of a float is the shortest decimal numeral that reads back *)
(* as the same float, always with a decimal point.                         *)
(***************************************************************************)
PyInt(n) ==
    [int |-> TRUE, neg |-> n < 0, f |-> FromInt(IF n < 0 THEN 0 - n ELSE n)]

\* the float literal n * 10^-p
PyDec(n, p) ==
    [int |-> FALSE, neg |-> n < 0,
     f |-> FromDecimal(IF n < 0 THEN 0 - n ELSE n, p)]

Signed(neg, f) == [int |-> FALSE, neg |-> neg, f |-> f]

SNeg(x) == Signed(~x.neg, x.f)

\* x + y for magnitudes, x.e >= y.e
FAddAligned(x, y) ==
    RoundNearestEven(BAdd(BShl(x.m, x.e - y.e), y.m), y.e, FALSE)

FAddMag(x, y) ==
    IF x.m = <<>> THEN y
    ELSE IF y.m = <<>> THEN x
    ELSE IF x.e >= y.e THEN FAddAligned(x, y)
    ELSE FAddAligned(y, x)

\* x - y for magnitudes, x > y
FSubMag(x, y) ==
    IF y.m = <<>> THEN x
    ELSE IF x.e >= y.e
    THEN RoundNearestEven(BSub(BShl(x.m, x.e - y.e), y.m), y.e, FALSE)
    ELSE RoundNearestEven(BSub(x.m, BShl(y.m, y.e - x.e)), x.e, FALSE)

SAddOpposite(x, y, c) ==
    IF c = 0 THEN Signed(FALSE, FZero)
    ELSE IF c > 0 THEN Signed(x.neg, FSubMag(x.f, y.f))
    ELSE Signed(y.neg, FSubMag(y.f, x.f))

SAdd(x, y) ==
    IF x.neg = y.neg THEN Signed(x.neg, FAddMag(x.f, y.f))
    ELSE SAddOpposite(x, y, FCmp(x.f, y.f))

SSub(x, y) == SAdd(x, SNeg(y))

SMul(x, y) == Signed(x.neg # y.neg, FMul(x.f, y.f))

SHalf(x) == Signed(x.neg, FDivSmall(x.f, 2))

\* the float the numeral n * 10^s denotes
DecToFloat(n, s) ==
    IF s >= 0 THEN RoundNearestEven(BMulPow10(n, s), 0, FALSE)
    ELSE FRoundSticky(BDivPow10(BShl(n, 8 * LimbBits), 0 - s),
                      0 - 8 * LimbBits)

\* a / b rounded to prec significant digits, as n * 10^(exp - prec + 1)
ReprRounded(n, ex, prec) ==
    IF Len(BToStr(n)) > prec
    THEN [n |-> BMulPow10(<<1>>, prec - 1), prec |-> prec, exp |-> ex + 1]
    ELSE [n |-> n, prec |-> prec, exp |-> ex]

ReprHalfEven(f) == HalfEvenB(BDiv(f.n, f.d), f.d)

ReprDigits(a, b, ex, prec) ==
    ReprRounded(ReprHalfEven(DecScale(a, b, prec - 1 - ex)), ex, prec)

RoundTrips(sd, x) == DecToFloat(sd.n, sd.exp - sd.prec + 1) = x

RECURSIVE ReprSearch(_, _, _, _, _)
ReprSearch(x, a, b, ex, prec) ==
    IF prec = 17 \/ RoundTrips(ReprDigits(a, b, ex, prec), x)
    THEN ReprDigits(a, b, ex, prec)
    ELSE ReprSearch(x, a, b, ex, prec + 1)

ReprShortest(x) ==
    ReprSearch(x, FNum(x), FDen(x), DecExponent(FNum(x), FDen(x)), 1)

ReprFixed(digits, ex) ==
    IF ex >= Len(digits) - 1
    THEN digits \o [i \in 1..(ex + 1 - Len(digits)) |-> "0"] \o <<".", "0">>
    ELSE IF ex >= 0
    THEN SubSeq(digits, 1, ex + 1) \o <<".">>
         \o SubSeq(digits, ex + 2, Len(digits))
    ELSE <<"0", ".">> \o [i \in 1..((0 - ex) - 1) |-> "0"] \o digits

ReprLayout(digits, ex) ==
    IF ex >= 0 - 4 /\ ex < 16 THEN ReprFixed(digits, ex)
    ELSE GExponent(digits, ex)

ReprOf(sd) == ReprLayout(BToStr(sd.n), sd.exp)

SignChars(x) == IF x.neg THEN <<"-">> ELSE <<>>

\* f"{x}"
PyStr(x) ==
    SignChars(x)
    \o (IF x.int THEN IntToStr(FTrunc(x.f))
        ELSE IF x.f.m = <<>> THEN <<"0", ".", "0">>
        ELSE ReprOf(ReprShortest(x.f)))

\* x * 1000 rounded half to even, at least four digits
MilliDigits(f) ==
    IF f.m = <<>> THEN <<"0", "0", "0", "0">>
    ELSE ZeroPad(BToStr(ReprHalfEven(DecScale(FNum(f), FDen(f), 3))), 4)

PointBeforeLast3(digits) ==
    SubSeq(digits, 1, Len(digits) - 3) \o <<".">>
    \o SubSeq(digits, Len(digits) - 2, Len(digits))

\* f"{x:.3f}"
Fixed3(x) == SignChars(x) \o PointBeforeLast3(MilliDigits(x.f))

(***************************************************************************)
(* kicad_connector_footprint_generator: the specifications of the          *)
(* connector series, and the text of a footprint.  A text is the sequence  *)
(* of its lines and a line the sequence of its pieces, template pieces as  *)
(* they are written in the source and formatted values character by        *)
(* character.                                                              *)
(***************************************************************************)
CONNECTOR_SPECS ==
    "TB004-508" :>
       [width_per_pin |-> PyDec(508, 2), width_left |-> PyDec(58, 1),
        width_right |-> PyDec(52, 1), circle_x |-> PyDec(0 - 70, 1),
        circle_y |-> PyDec(0, 1), circle_radius |-> PyDec(5, 1),
        height_top |-> PyDec(52, 1), height_bottom |-> PyDec(0 - 52, 1),
        pad_size |-> PyDec(255, 2), drill_size |-> PyDec(17, 1),
        silk_margin |-> PyDec(1524, 4), mask_margin |-> PyDec(102, 3),
        ref_x |-> PyDec(0, 1), ref_y |-> PyDec(6096, 3),
        model_offset_base |-> <<PyDec(0, 1), PyDec(0, 1), PyDec(0, 1)>>,
        model_rotation |-> <<PyDec(0, 1), PyDec(0, 1), PyDec(0, 1)>>,
        step_multiplier |-> PyDec(0, 1), model_offset_func |-> "offset_sub"]
    @@
    "TB006-508" :>
       [width_per_pin |-> PyDec(508, 2), width_left |-> PyDec(58, 1),
        width_right |-> PyDec(52, 1), circle_x |-> PyDec(0 - 70, 1),
        circle_y |-> PyDec(0, 1), circle_radius |-> PyDec(5, 1),
        height_top |-> PyDec(42, 1), height_bottom |-> PyDec(0 - 42, 1),
        pad_size |-> PyDec(255, 2), drill_size |-> PyDec(17, 1),
        silk_margin |-> PyDec(1524, 4), mask_margin |-> PyDec(102, 3),
        ref_x |-> PyDec(0, 1), ref_y |-> PyDec(5334, 3),
        model_offset_base |-> <<PyDec(0, 1), PyDec(0, 1), PyDec(0, 1)>>,
        model_rotation |-> <<PyDec(0, 1), PyDec(0, 1), PyDec(0, 1)>>,
        step_multiplier |-> PyDec(0, 1), model_offset_func |-> "offset_sub"]
    @@
    "TBP02R1-381" :>
       [width_per_pin |-> PyDec(381, 2), width_left |-> PyDec(44, 1),
        width_right |-> PyDec(44, 1), circle_x |-> PyDec(0 - 70, 1),
        circle_y |-> PyDec(0, 1), circle_radius |-> PyDec(5, 1),
        height_top |-> PyDec(0 - 79, 1), height_bottom |-> PyDec(14, 1),
        pad_size |-> PyDec(21, 1), drill_size |-> PyDec(14, 1),
        silk_margin |-> PyDec(1524, 4), mask_margin |-> PyDec(102, 3),
        ref_x |-> PyDec(0, 1), ref_y |-> PyDec(24, 1),
        model_offset_base |-> <<PyDec(0 - 1715, 2), PyDec(170, 1), PyDec(0 - 34, 1)>>,
        model_rotation |-> <<PyInt(0), PyInt(90), PyInt(180)>>,
        step_multiplier |-> PyDec(1905, 3),
        model_offset_func |-> "offset_add"]
    @@
    "TBP02R2-381" :>
       [width_per_pin |-> PyDec(381, 2), width_left |-> PyDec(4445, 3),
        width_right |-> PyDec(4445, 3), circle_x |-> PyDec(0 - 70, 1),
        circle_y |-> PyDec(0, 1), circle_radius |-> PyDec(5, 1),
        height_top |-> PyDec(32512, 4), height_bottom |-> PyDec(0 - 4445, 3),
        pad_size |-> PyDec(21, 1), drill_size |-> PyDec(14, 1),
        silk_margin |-> PyDec(1524, 4), mask_margin |-> PyDec(102, 3),
        ref_x |-> PyDec(0, 1), ref_y |-> PyDec(42, 1),
        model_offset_base |-> <<PyDec(17145, 3), PyDec(0 - 6477, 3), PyDec(18288, 3)>>,
        model_rotation |-> <<PyInt(90), PyInt(0), PyInt(-90)>>,
        step_multiplier |-> PyDec(1905, 3),
        model_offset_func |-> "offset_sub"]
    @@
    "TBP04R1-500" :>
       [width_per_pin |-> PyDec(50, 1), width_left |-> PyDec(52, 1),
        width_right |-> PyDec(52, 1), circle_x |-> PyDec(0 - 70, 1),
        circle_y |-> PyDec(0, 1), circle_radius |-> PyDec(5, 1),
        height_top |-> PyDec(0 - 22, 1), height_bottom |-> PyDec(99, 1),
        pad_size |-> PyDec(255, 2), drill_size |-> PyDec(17, 1),
        silk_margin |-> PyDec(1524, 4), mask_margin |-> PyDec(102, 3),
        ref_x |-> PyDec(0, 1), ref_y |-> PyDec(0 - 30, 1),
        model_offset_base |-> <<PyDec(0 - 165, 2), PyDec(10, 1), PyDec(0 - 381, 2)>>,
        model_rotation |-> <<PyInt(-90), PyInt(0), PyInt(90)>>,
        step_multiplier |-> PyDec(25, 1), model_offset_func |-> "offset_add"]
    @@
    "TBP04R2-500" :>
       [width_per_pin |-> PyDec(50, 1), width_left |-> PyDec(58, 1),
        width_right |-> PyDec(58, 1), circle_x |-> PyDec(0 - 70, 1),
        circle_y |-> PyDec(0, 1), circle_radius |-> PyDec(5, 1),
        height_top |-> PyDec(48, 1), height_bottom |-> PyDec(0 - 40, 1),
        pad_size |-> PyDec(255, 2), drill_size |-> PyDec(17, 1),
        silk_margin |-> PyDec(1524, 4), mask_margin |-> PyDec(102, 3),
        ref_x |-> PyDec(0, 1), ref_y |-> PyDec(58, 1),
        model_offset_base |-> <<PyInt(5), PyDec(0 - 75, 2), PyDec(0 - 381, 2)>>,
        model_rotation |-> <<PyInt(-90), PyInt(0), PyInt(180)>>,
        step_multiplier |-> PyDec(25, 1), model_offset_func |-> "offset_add"]
    @@
    "TBP04R3-500" :>
       [width_per_pin |-> PyDec(50, 1), width_left |-> PyDec(52, 1),
        width_right |-> PyDec(52, 1), circle_x |-> PyDec(0 - 70, 1),
        circle_y |-> PyDec(0, 1), circle_radius |-> PyDec(5, 1),
        height_top |-> PyDec(48, 1), height_bottom |-> PyDec(0 - 40, 1),
        pad_size |-> PyDec(255, 2), drill_size |-> PyDec(17, 1),
        silk_margin |-> PyDec(1524, 4), mask_margin |-> PyDec(102, 3),
        ref_x |-> PyDec(0, 1), ref_y |-> PyDec(58, 1),
        model_offset_base |-> <<PyInt(5), PyDec(0 - 75, 2), PyDec(0 - 381, 2)>>,
        model_rotation |-> <<PyInt(-90), PyInt(0), PyInt(180)>>,
        step_multiplier |-> PyDec(25, 1), model_offset_func |-> "offset_add"]
    @@
    "TBP04R12-500" :>
       [width_per_pin |-> PyDec(50, 1), width_left |-> PyDec(58, 1),
        width_right |-> PyDec(58, 1), circle_x |-> PyDec(0 - 70, 1),
        circle_y |-> PyDec(0, 1), circle_radius |-> PyDec(5, 1),
        height_top |-> PyDec(0 - 22, 1), height_bottom |-> PyDec(99, 1),
        pad_size |-> PyDec(255, 2), drill_size |-> PyDec(17, 1),
        silk_margin |-> PyDec(1524, 4), mask_margin |-> PyDec(102, 3),
        ref_x |-> PyDec(0, 1), ref_y |-> PyDec(0 - 30, 1),
        model_offset_base |-> <<PyInt(-5), PyDec(0 - 56, 1), PyDec(0 - 381, 2)>>,
        model_rotation |-> <<PyInt(-90), PyInt(0), PyInt(0)>>,
        step_multiplier |-> PyDec(25, 1), model_offset_func |-> "offset_sub"]

offset_add(base, step) == <<SAdd(base[1], step), base[2], base[3]>>

offset_sub(base, step) == <<SSub(base[1], step), base[2], base[3]>>

\* uuid4() reads the random source of the system.  The source is a seed
\* and the number of values drawn so far: every value of a source whose
\* step is 0 is the same, and no two values of one whose step is 1 are.
UuidSeeds == {[step |-> s] : s \in 0..1}

UuidDrawn(seed, n) == seed.step * n

\* the k-th uuid4() of a call that starts at rng
uuid4(rng, k) == <<"uuid4:">> \o IntToStr(UuidDrawn(rng.seed, rng.drawn + k))

HasAttr(part, name) == name \in DOMAIN part

extra_width_per_side(part, specs) ==
    SHalf(SMul(PyInt(part.pin_count - 2), specs.width_per_pin))

total_left_half_width(part, specs) ==
    SAdd(specs.width_left, extra_width_per_side(part, specs))

total_right_half_width(part, specs) ==
    SAdd(specs.width_right, extra_width_per_side(part, specs))

total_length(part) == SMul(PyInt(part.pin_count - 1), part.pitch)

start_pos(part) == SHalf(SNeg(total_length(part)))

x_pos(part, pin) == SAdd(start_pos(part), SMul(PyInt(pin), part.pitch))

pad_type(pin) == IF pin = 0 THEN "rect" ELSE "circle"

step_offset(part, specs) ==
    SMul(PyInt(part.pin_count - 2), specs.step_multiplier)

model_offset(part, specs) ==
    IF specs.model_offset_func = "offset_add"
    THEN offset_add(specs.model_offset_base, step_offset(part, specs))
    ELSE offset_sub(specs.model_offset_base, step_offset(part, specs))

model_path(part) ==
    <<"KiCAD_Symbol_Generator/3D_models/", "CUI_DEVICES_", part.mpn, ".step">>

header(part) ==
    << <<"(footprint \"">> \o <<part.mpn>> \o <<"\"">>,
       <<"    (version 20240108)">>,
       <<"    (generator \"pcbnew\")">>,
       <<"    (generator_version \"8.0\")">>,
       <<"    (layer \"F.Cu\")">> >>

\* the draws 0..4 of the call
properties(part, specs, rng) ==
    << <<"    (property \"Reference\" \"REF**\"">>,
       <<"        (at ">>
         \o PyStr(specs.ref_x)
         \o <<" ">>
         \o PyStr(specs.ref_y)
         \o <<" 0)">>,
       <<"        (layer \"F.SilkS\")">>,
       <<"        (uuid \"">> \o uuid4(rng, 0) \o <<"\")">>,
       <<"        (effects">>,
       <<"            (font">>,
       <<"                (size 0.762 0.762)">>,
       <<"                (thickness 0.1524)">>,
       <<"            )">>,
       <<"        )">>,
       <<"    )">>,
       <<"    (property \"Value\" \"">> \o <<part.mpn>> \o <<"\"">>,
       <<"        (at 0 ">>
         \o PyStr(SAdd(specs.height_top, PyDec(1042, 3)))
         \o <<" 0)">>,
       <<"        (layer \"F.Fab\")">>,
       <<"        (uuid \"">> \o uuid4(rng, 1) \o <<"\")">>,
       <<"        (effects">>,
       <<"            (font">>,
       <<"                (size 0.762 0.762)">>,
       <<"                (thickness 0.1524)">>,
       <<"            )">>,
       <<"            (justify left)">>,
       <<"        )">>,
       <<"    )">>,
       <<"    (property \"Footprint\" \"\"">>,
       <<"        (at ">> \o PyStr(start_pos(part)) \o <<" 0 0)">>,
       <<"        (layer \"F.Fab\")">>,
       <<"        (hide yes)">>,
       <<"        (uuid \"">> \o uuid4(rng, 2) \o <<"\")">>,
       <<"        (effects">>,
       <<"            (font">>,
       <<"                (size 1.27 1.27)">>,
       <<"                (thickness 0.15)">>,
       <<"            )">>,
       <<"        )">>,
       <<"    )">>,
       <<"    (property \"Datasheet\" \"\"">>,
       <<"        (at ">> \o PyStr(start_pos(part)) \o <<" 0 0)">>,
       <<"        (layer \"F.Fab\")">>,
       <<"        (hide yes)">>,
       <<"        (uuid \"">> \o uuid4(rng, 3) \o <<"\")">>,
       <<"        (effects">>,
       <<"            (font">>,
       <<"                (size 1.27 1.27)">>,
       <<"                (thickness 0.15)">>,
       <<"            )">>,
       <<"        )">>,
       <<"    )">>,
       <<"    (property \"Description\" \"\"">>,
       <<"        (at ">> \o PyStr(start_pos(part)) \o <<" 0 0)">>,
       <<"        (layer \"F.Fab\")">>,
       <<"        (hide yes)">>,
       <<"        (uuid \"">> \o uuid4(rng, 4) \o <<"\")">>,
       <<"        (effects">>,
       <<"            (font">>,
       <<"                (size 1.27 1.27)">>,
       <<"                (thickness 0.15)">>,
       <<"            )">>,
       <<"        )">>,
       <<"    )">> >>

\* the draws 5..9 of the call
shapes(part, specs, rng) ==
    << <<"    (attr through_hole)">>,
       <<"    (fp_rect">>,
       <<"        (start ">>
         \o Fixed3(SNeg(total_left_half_width(part, specs)))
         \o <<" ">>
         \o PyStr(specs.height_bottom)
         \o <<")">>,
       <<"        (end ">>
         \o Fixed3(total_right_half_width(part, specs))
         \o <<" ">>
         \o PyStr(specs.height_top)
         \o <<")">>,
       <<"        (stroke">>,
       <<"            (width ">> \o PyStr(specs.silk_margin) \o <<")">>,
       <<"            (type default)">>,
       <<"        )">>,
       <<"        (fill none)">>,
       <<"        (layer \"F.SilkS\")">>,
       <<"        (uuid \"">> \o uuid4(rng, 5) \o <<"\")">>,
       <<"    )">>,
       <<"    (fp_circle">>,
       <<"        (center ">>
         \o PyStr(SSub(specs.circle_x, extra_width_per_side(part, specs)))
         \o <<" ">>
         \o PyStr(specs.circle_y)
         \o <<")">>,
       <<"        (end ">>
         \o PyStr(SSub(specs.circle_x, specs.circle_radius))
         \o <<" ">>
         \o PyStr(specs.circle_y)
         \o <<")">>,
       <<"        (stroke">>,
       <<"            (width ">> \o PyStr(specs.silk_margin) \o <<")">>,
       <<"            (type solid)">>,
       <<"        )">>,
       <<"        (fill none)">>,
       <<"        (layer \"F.SilkS\")">>,
       <<"        (uuid \"">> \o uuid4(rng, 6) \o <<"\")">>,
       <<"    )">>,
       <<"    (fp_rect">>,
       <<"        (start ">>
         \o Fixed3(SNeg(total_left_half_width(part, specs)))
         \o <<" ">>
         \o PyStr(specs.height_bottom)
         \o <<")">>,
       <<"        (end ">>
         \o Fixed3(total_right_half_width(part, specs))
         \o <<" ">>
         \o PyStr(specs.height_top)
         \o <<")">>,
       <<"        (stroke">>,
       <<"            (width 0.00635)">>,
       <<"            (type default)">>,
       <<"        )">>,
       <<"        (fill none)">>,
       <<"        (layer \"F.CrtYd\")">>,
       <<"        (uuid \"">> \o uuid4(rng, 7) \o <<"\")">>,
       <<"    )">>,
       <<"    (fp_rect">>,
       <<"        (start ">>
         \o Fixed3(SNeg(total_left_half_width(part, specs)))
         \o <<" ">>
         \o PyStr(specs.height_bottom)
         \o <<")">>,
       <<"        (end ">>
         \o Fixed3(total_right_half_width(part, specs))
         \o <<" ">>
         \o PyStr(specs.height_top)
         \o <<")">>,
       <<"        (stroke">>,
       <<"            (width ">> \o PyStr(specs.silk_margin) \o <<")">>,
       <<"            (type default)">>,
       <<"        )">>,
       <<"        (fill none)">>,
       <<"        (layer \"F.Fab\")">>,
       <<"        (uuid \"">> \o uuid4(rng, 8) \o <<"\")">>,
       <<"    )">>,
       <<"    (fp_circle">>,
       <<"        (center ">>
         \o PyStr(SSub(specs.circle_x, extra_width_per_side(part, specs)))
         \o <<" ">>
         \o PyStr(specs.circle_y)
         \o <<")">>,
       <<"        (end ">>
         \o PyStr(SSub(specs.circle_x, specs.circle_radius))
         \o <<" ">>
         \o PyStr(specs.circle_y)
         \o <<")">>,
       <<"        (stroke">>,
       <<"            (width ">> \o PyStr(specs.silk_margin) \o <<")">>,
       <<"            (type solid)">>,
       <<"        )">>,
       <<"        (fill none)">>,
       <<"        (layer \"F.Fab\")">>,
       <<"        (uuid \"">> \o uuid4(rng, 9) \o <<"\")">>,
       <<"    )">> >>

\* the pad of pin (from 0), the draw 10 + pin of the call
pad(part, specs, rng, pin) ==
    << <<"    (pad \"">>
         \o IntToStr(pin + 1)
         \o <<"\" thru_hole ">>
         \o <<pad_type(pin)>>,
       <<"        (at ">> \o Fixed3(x_pos(part, pin)) \o <<" 0)">>,
       <<"        (size ">>
         \o PyStr(specs.pad_size)
         \o <<" ">>
         \o PyStr(specs.pad_size)
         \o <<")">>,
       <<"        (drill ">> \o PyStr(specs.drill_size) \o <<")">>,
       <<"        (layers \"*.Cu\" \"*.Mask\")">>,
       <<"        (remove_unused_layers no)">>,
       <<"        (solder_mask_margin ">>
         \o PyStr(specs.mask_margin)
         \o <<")">>,
       <<"        (uuid \"">> \o uuid4(rng, 10 + pin) \o <<"\")">>,
       <<"    )">> >>

model(part, specs) ==
    << <<"    (model \"${KIPRJMOD}/">> \o model_path(part) \o <<"\"">>,
       <<"        (offset">>,
       <<"            (xyz ">>
         \o Fixed3(model_offset(part, specs)[1])
         \o <<" ">>
         \o PyStr(model_offset(part, specs)[2])
         \o <<" ">>
         \o PyStr(model_offset(part, specs)[3])
         \o <<")">>,
       <<"        )">>,
       <<"        (scale">>,
       <<"            (xyz 1 1 1)">>,
       <<"        )">>,
       <<"        (rotate">>,
       <<"            (xyz ">>
         \o PyStr(specs.model_rotation[1])
         \o <<" ">>
         \o PyStr(specs.model_rotation[2])
         \o <<" ">>
         \o PyStr(specs.model_rotation[3])
         \o <<")">>,
       <<"        )">>,
       <<"    )">> >>

\* for pin in range(part.pin_count)
RECURSIVE pads(_, _, _, _)
pads(part, specs, rng, pin) ==
    IF pin >= part.pin_count THEN <<>>
    ELSE pad(part, specs, rng, pin) \o pads(part, specs, rng, pin + 1)

PadCount(part) == IF part.pin_count > 0 THEN part.pin_count ELSE 0

footprint(part, specs, rng) ==
    header(part) \o properties(part, specs, rng) \o shapes(part, specs, rng)
    \o pads(part, specs, rng, 0) \o model(part, specs) \o << <<")">> >>

\* the outcome of generate_footprint(part, specs) with the random source at
\* rng: the text and the number of values drawn, or the AttributeError of
\* the first attribute the part does not have
generate_footprint(part, specs, rng) ==
    IF ~HasAttr(part, "pin_count") \/ ~HasAttr(part, "pitch")
    THEN [raised |-> "AttributeError", text |-> <<>>, draws |-> 0]
    ELSE [raised |-> "", text |-> footprint(part, specs, rng),
          draws |-> 10 + PadCount(part)]

(***************************************************************************)
(* kicad_connector_footprint_generator: calls of generate_footprint_file   *)
(* and generate_footprint, one after another.  The module has no caller    *)
(* of its own; a caller passes any object as the part.  gen is the random  *)
(* source, files the file system (a directory is an entry without rows),   *)
(* history the outcome of every call that has ended.                       *)
(***************************************************************************)
MaxCalls == 2

FP_DIR == <<"connector_footprints.pretty">>

FootprintFilename(part) ==
    <<"connector_footprints.pretty/", part.mpn, ".kicad_mod">>

\* a part with the attributes generate_footprint reads
ConnectorPart(mpn, series, pin_count, pitch) ==
    [mpn |-> mpn, series |-> series, pin_count |-> pin_count, pitch |-> pitch]

\* a part as series_specs_connectors declares it: no pin_count, no pitch
DeclaredPartInfo(mpn, series) ==
    [symbol_name |-> mpn, reference |-> "J", value |-> mpn,
     footprint |-> "footprints:TBP02R2-381-02P",
     datasheet |-> "https://www.sameskydevices.com/product/resource/tbp02r2-381.pdf",
     description |-> "", manufacturer |-> "Same Sky", mpn |-> mpn,
     series |-> series,
     trustedparts_link |-> "https://www.trustedparts.com/en/search"]

FpParts ==
    << ConnectorPart("TBP02R2-381-02BE", "TBP02R2-381", 2, PyDec(381, 2)),
       ConnectorPart("TBP02R2-381-03BE", "TBP02R2-381", 3, PyDec(381, 2)),
       ConnectorPart("TBP01R1-350-02BE", "TBP01R1-350", 2, PyDec(35, 1)),
       DeclaredPartInfo("TBP02R2-381-02BE", "TBP02R2-381") >>

FileCall(part) == [fn |-> "generate_footprint_file", part |-> part]

TextCall(part, series) ==
    [fn |-> "generate_footprint", part |-> part,
     specs |-> CONNECTOR_SPECS[series]]

FpCalls ==
    << FileCall(FpParts[1]), FileCall(FpParts[3]), FileCall(FpParts[4]),
       TextCall(FpParts[1], "TBP02R2-381"), TextCall(FpParts[2], "TBP02R2-381"),
       TextCall(FpParts[1], "TBP04R2-500") >>

NoCall == [fn |-> "none"]

NoText == [raised |-> "", text |-> <<>>, draws |-> 0]

FpRaised(exception) == [raised |-> exception, text |-> <<>>, draws |-> 0]

\* the directory is there, with a file of an earlier run for the part whose
\* series is unknown, or it is not there
FpInitialFiles ==
    { <<>>,
      << [name |-> FP_DIR, rows |-> <<>>],
         [name |-> FootprintFilename(FpParts[3]),
          rows |-> << <<"earlier run">> >>] >> }

InitFp ==
    /\ pc = "idle"
    /\ arg = NoCall
    /\ result = NoText
    /\ gen \in {[fn |-> "uuid4", seed |-> s, drawn |-> 0] : s \in UuidSeeds}
    /\ yielded = <<>>
    /\ parts = FpParts
    /\ history = <<>>
    /\ files \in FpInitialFiles
    /\ stdout = <<>>

FpCall ==
    /\ pc = "idle"
    /\ Len(history) < MaxCalls
    /\ \E i \in 1..Len(FpCalls) : arg' = FpCalls[i]
    /\ pc' = (IF arg'.fn = "generate_footprint_file" THEN "check"
              ELSE "generate")
    /\ result' = NoText
    /\ UNCHANGED <<gen, yielded, parts, history, io>>

\* variant: the file is opened before the series is looked up
FpSeriesCheckAfterOpen ==
    /\ pc = "check"
    /\ IF arg.part.series \notin DOMAIN CONNECTOR_SPECS
       THEN /\ result' = FpRaised("ValueError")
            /\ files' = (IF HasFile(files, FP_DIR)
                         THEN FileStore(files, FootprintFilename(arg.part),
                                        <<>>)
                         ELSE files)
            /\ pc' = "raise"
       ELSE pc' = "generate" /\ UNCHANGED <<result, files>>
    /\ UNCHANGED <<arg, gen, yielded, parts, history, stdout>>

\* if part.series not in CONNECTOR_SPECS: raise ValueError
FpSeriesCheck ==
    /\ pc = "check"
    /\ IF arg.part.series \notin DOMAIN CONNECTOR_SPECS
       THEN result' = FpRaised("ValueError") /\ pc' = "raise"
       ELSE pc' = "generate" /\ UNCHANGED result
    /\ UNCHANGED <<arg, gen, yielded, parts, history, io>>

CallSpecs ==
    IF arg.fn = "generate_footprint_file"
    THEN CONNECTOR_SPECS[arg.part.series]
    ELSE arg.specs

\* generate_footprint(part, specs): the values it draws are gone from the
\* random source
FpGenerate ==
    /\ pc = "generate"
    /\ result' = generate_footprint(arg.part, CallSpecs, gen)
    /\ gen' = [gen EXCEPT !.drawn = @ + result'.draws]
    /\ pc' = (IF result'.raised # "" THEN "raise"
              ELSE IF arg.fn = "generate_footprint_file" THEN "open"
              ELSE "return")
    /\ UNCHANGED <<arg, yielded, parts, history, io>>

\* open(filename, 'w'): the file is made, or emptied; there is no file to
\* open where the directory is missing
FpOpen ==
    /\ pc = "open"
    /\ IF HasFile(files, FP_DIR)
       THEN /\ files' = FileStore(files, FootprintFilename(arg.part), <<>>)
            /\ pc' = "write"
            /\ UNCHANGED result
       ELSE /\ result' = FpRaised("FileNotFoundError")
            /\ pc' = "raise"
            /\ UNCHANGED files
    /\ UNCHANGED <<arg, gen, yielded, parts, history, stdout>>

\* f.write(footprint_content), and the file is closed
FpWrite ==
    /\ pc = "write"
    /\ files' = FileStore(files, FootprintFilename(arg.part), result.text)
    /\ pc' = "return"
    /\ UNCHANGED <<arg, result, gen, yielded, parts, history, stdout>>

FpReturn ==
    /\ pc = "return"
    /\ history' = Append(history, [call |-> arg, raised |-> "",
                                   text |-> result.text])
    /\ pc' = "idle"
    /\ UNCHANGED <<arg, result, gen, yielded, parts, io>>

\* the exception leaves the call
FpRaise ==
    /\ pc = "raise"
    /\ history' = Append(history, [call |-> arg, raised |-> result.raised,
                                   text |-> <<>>])
    /\ pc' = "idle"
    /\ UNCHANGED <<arg, result, gen, yielded, parts, io>>

NextFp ==
    \/ FpCall
    \/ FpSeriesCheck
    \/ FpGenerate
    \/ FpOpen
    \/ FpWrite
    \/ FpReturn
    \/ FpRaise

SpecFp == InitFp /\ [][NextFp]_vars

(***************************************************************************)
(* C21: generate_footprint_file(part) with part.series not a key of        *)
(* CONNECTOR_SPECS raises ValueError as its first step, before             *)
(* generate_footprint is called (no text, no value drawn from the random   *)
(* source) and before the file is opened; no step of the call changes the  *)
(* files (the file of an earlier run for that part keeps its rows, no file *)
(* is made), the random source or any other state; and a call for a part   *)
(* with a known series, after failed calls as without them, returns with   *)
(* the text in the file of the part wherever the directory is there.       *)
(***************************************************************************)
UnknownSeriesCall ==
    /\ pc # "idle"
    /\ arg.fn = "generate_footprint_file"
    /\ arg.part.series \notin DOMAIN CONNECTOR_SPECS

RaisedBeforeText ==
    UnknownSeriesCall =>
        /\ pc \in {"check", "raise"}
        /\ result = (IF pc = "check" THEN NoText ELSE FpRaised("ValueError"))

RaisesAtCheck ==
    UnknownSeriesCall =>
        /\ pc = "check" => pc' = "raise"
        /\ pc = "raise" =>
               /\ pc' = "idle"
               /\ history' = Append(history, [call |-> arg,
                                              raised |-> "ValueError",
                                              text |-> <<>>])

NothingChanged ==
    UnknownSeriesCall => UNCHANGED <<arg, gen, yielded, parts, files, stdout>>

KnownSeriesCall(call) ==
    /\ call.fn = "generate_footprint_file"
    /\ call.part.series \in DOMAIN CONNECTOR_SPECS
    /\ HasAttr(call.part, "pin_count")
    /\ HasAttr(call.part, "pitch")

KnownSucceeds ==
    \A j \in 1..Len(history) :
        KnownSeriesCall(history[j].call) /\ HasFile(files, FP_DIR)
            => history[j].raised = ""

ReturnsWritten ==
    pc = "return" /\ arg.fn = "generate_footprint_file" =>
        /\ history' = Append(history, [call |-> arg, raised |-> "",
                                       text |-> result.text])
        /\ result.text # <<>>
        /\ HasFile(files', FootprintFilename(arg.part))
        /\ FileRows(files', FootprintFilename(arg.part)) = result.text

C21_UnknownSeriesRaises ==
    /\ [](RaisedBeforeText /\ KnownSucceeds)
    /\ [][RaisesAtCheck]_vars
    /\ [][NothingChanged]_vars
    /\ [][ReturnsWritten]_vars

\* a failed call for the part of the unknown series, whose file of an
\* earlier run is as it was, and then a call for a known series that has
\* written its file
C21_Witness ==
    /\ pc = "idle"
    /\ Len(history) = 2
    /\ history[1].call = FileCall(FpParts[3])
    /\ history[1].raised = "ValueError"
    /\ history[2].call = FileCall(FpParts[1])
    /\ history[2].raised = ""
    /\ FileRows(files, FootprintFilename(FpParts[3])) = << <<"earlier run">> >>
    /\ HasFile(files, FootprintFilename(FpParts[1]))
    /\ Len(FileRows(files, FootprintFilename(FpParts[1]))) > 100
    /\ gen.drawn = 12

(***************************************************************************)
(* C22: two invocations of generate_footprint with the same part and the   *)
(* same ConnectorSpecs return the same text.  The text holds a uuid4()     *)
(* value for each of its ten properties and shapes and one for every pad,  *)
(* so the statement holds only of a random source that repeats itself.     *)
(***************************************************************************)
C22_SameTextTwice ==
    \A i, j \in 1..Len(history) :
        /\ history[i].call.fn = "generate_footprint"
        /\ history[i].call = history[j].call
        /\ history[i].raised = ""
        /\ history[j].raised = ""
        => history[i].text = history[j].text

====
